---- MODULE Spec2Model ----
(***************************************************************************)
(* Subscription licensing: the license store, the subscription store, the  *)
(* validation engine (app/services/license_service.py, app/main.py) and    *)
(* the Stripe webhook synchronizer (app/webhooks/stripe.py,                *)
(* app/services/stripe_service.py).                                        *)
(*                                                                         *)
(* Timestamps are whole days.  Row ids are positions in the table          *)
(* sequences (auto-increment primary keys); a subscription's created_at    *)
(* order is its insertion order.                                           *)
(***************************************************************************)
EXTENDS Integers, Sequences, FiniteSets, TLC

\* ---------------------------------------------------------------- bounds
MaxUsers == 1
MaxLicenses == 2
MaxSubs == 2
MaxLogs == 1
Now == 1

\* a user is identified by its e-mail; the Stripe customer of e-mail e is e
Emails == 1..MaxUsers
\* well-formed license keys, and one candidate that fails the format check
Keys == 1..(MaxLicenses + 1)
BadKey == MaxLicenses + 2
KeyInputs == Keys \cup {BadKey}
\* Stripe subscription references; NoRef is an event that carries none
Refs == 1..MaxSubs
NoRef == MaxSubs + 1
\* datetime.utcnow() reads Now; stored timestamps lie around it
Times == (Now - 1)..(Now + 1)
\* Optional[T]: {} is None, {v} is the value v
Nothing == {}
Some(v) == {v}
The(o) == CHOOSE v \in o : TRUE
OptTimes == {Nothing} \cup {Some(t) : t \in Times}

\* ------------------------------------------------------------- data model
\* models.py SubscriptionStatus
SubscriptionStatus ==
    {"active", "past_due", "canceled", "unpaid", "incomplete",
     "incomplete_expired", "trialing", "ended"}

\* a status string the provider can send that the enum does not define
UnknownStatus == "paused"

VARIABLES users, licenses, subscriptions, api_logs, last, stripe_signature,
          issuing, retired

vars == <<users, licenses, subscriptions, api_logs, last, stripe_signature,
          issuing, retired>>

\* models.py License: the columns the engine reads or writes
License(u, k, h) ==
    [user_id |-> u, license_key |-> k, license_key_hash |-> h,
     is_active |-> TRUE, is_suspended |-> FALSE, validation_count |-> 0]

\* models.py Subscription: end_time is the nullable override column
Subscription(ref, u, st, cpe, cancel) ==
    [stripe_subscription_id |-> ref, user_id |-> u, status |-> st,
     current_period_end |-> cpe, end_time |-> Nothing,
     cancel_at_period_end |-> cancel]

\* security.py hash_license_key: SHA-256 hex digest, a one-way injective tag
hash_license_key(k) == <<"sha256", k>>

\* config.py license_key_length: 32 in the source, kept short here
license_key_length == 2

\* secrets.token_urlsafe: the URL-safe base64 alphabet by 6-bit value
Base64Url ==
    <<"A", "B", "C", "D", "E", "F", "G", "H", "I", "J", "K", "L", "M",
      "N", "O", "P", "Q", "R", "S", "T", "U", "V", "W", "X", "Y", "Z",
      "a", "b", "c", "d", "e", "f", "g", "h", "i", "j", "k", "l", "m",
      "n", "o", "p", "q", "r", "s", "t", "u", "v", "w", "x", "y", "z",
      "0", "1", "2", "3", "4", "5", "6", "7", "8", "9", "-", "_">>

\* secrets.token_bytes: the byte strings the generator can draw
Bytes == 0..255
RandomBytes == [1..license_key_length -> Bytes]

\* the big-endian integer of a byte string
RECURSIVE BytesValue(_)
BytesValue(bytes) ==
    IF bytes = <<>> THEN 0
    ELSE 256 * BytesValue(SubSeq(bytes, 1, Len(bytes) - 1)) + bytes[Len(bytes)]

\* secrets.token_urlsafe(nbytes): base64.urlsafe_b64encode of the bytes with
\* the '=' padding stripped: the bits in groups of six, the last group
\* filled with zero bits
token_urlsafe(bytes) ==
    LET nchars == (8 * Len(bytes) + 5) \div 6
        padded == BytesValue(bytes) * 2 ^ (6 * nchars - 8 * Len(bytes))
    IN [j \in 1..nchars |-> Base64Url[((padded \div 64 ^ (nchars - j)) % 64) + 1]]

\* mutant of generate_license_key: the token is not cut to the key length
generate_license_key_untruncated(bytes) == token_urlsafe(bytes)

\* security.py generate_license_key: secrets.token_urlsafe(length)[:length]
generate_license_key(bytes) ==
    SubSeq(token_urlsafe(bytes), 1, license_key_length)

\* security.py is_license_key_format_valid line 93
allowed_chars ==
    {"A", "B", "C", "D", "E", "F", "G", "H", "I", "J", "K", "L", "M",
     "N", "O", "P", "Q", "R", "S", "T", "U", "V", "W", "X", "Y", "Z",
     "a", "b", "c", "d", "e", "f", "g", "h", "i", "j", "k", "l", "m",
     "n", "o", "p", "q", "r", "s", "t", "u", "v", "w", "x", "y", "z",
     "0", "1", "2", "3", "4", "5", "6", "7", "8", "9", "-", "_"}

\* security.py is_license_key_format_valid
is_license_key_format_valid(license_key) ==
    /\ license_key # <<>>
    /\ Len(license_key) = license_key_length
    /\ \A i \in 1..Len(license_key) : license_key[i] \in allowed_chars

\* the text of the request's key: a well-formed key k is written with the
\* k-th character of the alphabet, the malformed candidate with '+'
KeyText(k) ==
    [i \in 1..license_key_length |-> IF k \in Keys THEN Base64Url[k] ELSE "+"]

\* mutant of is_subscription_active: the grace-period status grants access
is_subscription_active_grace(status) ==
    status \in {"active", "trialing", "past_due"}

\* utils.py is_subscription_active
is_subscription_active(status) == status \in {"active", "trialing"}

LicenseIds == 1..Len(licenses)
SubIds == 1..Len(subscriptions)

\* db.query(License).filter(License.license_key_hash == h).first(): 0 is None
LicenseByHash(h) ==
    LET found == {i \in LicenseIds : licenses[i].license_key_hash = h}
    IN IF found = {} THEN 0 ELSE CHOOSE i \in found : \A j \in found : i <= j

\* mutant of SubscriptionByRef: an unknown reference falls back to the first
\* subscription
SubscriptionByRefOrFirst(ref) ==
    LET found == {i \in SubIds : subscriptions[i].stripe_subscription_id = ref}
    IN IF found # {} THEN CHOOSE i \in found : \A j \in found : i <= j
       ELSE IF subscriptions # <<>> THEN 1 ELSE 0

\* db.query(Subscription).filter(stripe_subscription_id == ref).first()
SubscriptionByRef(ref) ==
    LET found == {i \in SubIds : subscriptions[i].stripe_subscription_id = ref}
    IN IF found = {} THEN 0 ELSE CHOOSE i \in found : \A j \in found : i <= j

\* LicenseService.get_licenses_for_user
get_licenses_for_user(u) == {i \in LicenseIds : licenses[i].user_id = u}

\* mutant of get_subscription_for_user: the oldest subscription of the user
get_subscription_for_user_oldest(u) ==
    LET mine == {i \in SubIds : subscriptions[i].user_id = u}
    IN IF mine = {} THEN 0 ELSE CHOOSE i \in mine : \A j \in mine : i <= j

\* LicenseService._get_subscription_for_user: newest by created_at, any status
get_subscription_for_user(u) ==
    LET mine == {i \in SubIds : subscriptions[i].user_id = u}
    IN IF mine = {} THEN 0 ELSE CHOOSE i \in mine : \A j \in mine : j <= i

\* mutant of Response: every verdict names the plan
ResponseNamingPlan(valid, message, error_code) ==
    [valid |-> valid, message |-> message, error_code |-> error_code,
     expires_at |-> Nothing, subscription_status |-> Nothing,
     current_period_end |-> Nothing, end_time |-> Nothing,
     next_renewal_date |-> Nothing, cancel_at_period_end |-> Nothing,
     subscription_plan |-> Some("Unknown Plan"), days_until_expiry |-> Nothing]

\* schemas.py LicenseValidationResponse with its defaults
Response(valid, message, error_code) ==
    [valid |-> valid, message |-> message, error_code |-> error_code,
     expires_at |-> Nothing, subscription_status |-> Nothing,
     current_period_end |-> Nothing, end_time |-> Nothing,
     next_renewal_date |-> Nothing, cancel_at_period_end |-> Nothing,
     subscription_plan |-> Nothing, days_until_expiry |-> Nothing]

NoVerdict == Response(FALSE, "none", "none")

\* the last request and its answer: operation, the key / row id / reference
\* it names, the response, the rows its log lines or its answer report as
\* written, the validation verdict, and the store operations that failed
\* while it was served, and the subscription rows whose updated_at it set to
\* datetime.utcnow() by assignment
Idle ==
    [op |-> "init", arg |-> 0, resp |-> "none", touched |-> {},
     verdict |-> NoVerdict, faults |-> {}, updated_at |-> {}]

Answer(op, arg, resp) == [Idle EXCEPT !.op = op, !.arg = arg, !.resp = resp]

Init ==
    /\ users = [e \in Emails |-> "absent"]
    /\ licenses = <<>>
    /\ subscriptions = <<>>
    /\ api_logs = <<>>
    /\ last = Idle
    /\ stripe_signature = "none"
    /\ issuing = {}
    /\ retired = {}

\* --------------------------------------------------------------- validate
\* mutant of EffectiveExpiry: the sooner of the two timestamps
EffectiveExpirySooner(sub) ==
    IF sub.end_time # Nothing /\ The(sub.end_time) < sub.current_period_end
    THEN sub.end_time
    ELSE Some(sub.current_period_end)

\* LicenseService.validate_license line 117:
\* subscription.end_time or subscription.current_period_end
EffectiveExpiry(sub) ==
    IF sub.end_time # Nothing THEN sub.end_time
    ELSE Some(sub.current_period_end)

\* mutant of ValidResponse: a past effective expiry is rejected
ValidResponseExpiring(sub) ==
    LET effective_expiry == EffectiveExpiry(sub)
    IN IF The(effective_expiry) < Now
       THEN [valid |-> FALSE, message |-> "Subscription expired",
             error_code |-> "EXPIRED",
             expires_at |-> effective_expiry,
             subscription_status |-> Some(sub.status),
             current_period_end |-> Nothing, end_time |-> Nothing,
             next_renewal_date |-> Nothing, cancel_at_period_end |-> Nothing,
             subscription_plan |-> Nothing, days_until_expiry |-> Nothing]
       ELSE [valid |-> TRUE, message |-> "License key is valid",
             error_code |-> "none",
             expires_at |-> effective_expiry,
             subscription_status |-> Some(sub.status),
             current_period_end |-> Some(sub.current_period_end),
             end_time |-> sub.end_time,
             next_renewal_date |->
                 IF sub.cancel_at_period_end THEN Nothing
                 ELSE Some(sub.current_period_end),
             cancel_at_period_end |-> Some(sub.cancel_at_period_end),
             subscription_plan |-> Some("Unknown Plan"),
             days_until_expiry |-> Some(The(effective_expiry) - Now)]

\* mutant of ValidResponse: the next renewal is the effective expiry
ValidResponseRenewsAtExpiry(sub) ==
    LET effective_expiry == EffectiveExpiry(sub)
    IN [valid |-> TRUE, message |-> "License key is valid",
        error_code |-> "none",
        expires_at |-> effective_expiry,
        subscription_status |-> Some(sub.status),
        current_period_end |-> Some(sub.current_period_end),
        end_time |-> sub.end_time,
        next_renewal_date |->
            IF sub.cancel_at_period_end THEN Nothing ELSE effective_expiry,
        cancel_at_period_end |-> Some(sub.cancel_at_period_end),
        subscription_plan |-> Some("Unknown Plan"),
        days_until_expiry |-> Some(The(effective_expiry) - Now)]

\* LicenseService.validate_license lines 114-143: the Valid response
ValidResponse(sub) ==
    LET effective_expiry == EffectiveExpiry(sub)
    IN [valid |-> TRUE, message |-> "License key is valid",
        error_code |-> "none",
        expires_at |-> effective_expiry,
        subscription_status |-> Some(sub.status),
        current_period_end |-> Some(sub.current_period_end),
        end_time |-> sub.end_time,
        next_renewal_date |->
            IF sub.cancel_at_period_end THEN Nothing
            ELSE Some(sub.current_period_end),
        cancel_at_period_end |-> Some(sub.cancel_at_period_end),
        subscription_plan |-> Some("Unknown Plan"),
        days_until_expiry |-> Some(The(effective_expiry) - Now)]

\* mutant of validate_license: the suspended check precedes the active check
validate_license_swapped(key) ==
    LET lic == LicenseByHash(hash_license_key(key))
        sub == get_subscription_for_user(licenses[lic].user_id)
    IN IF lic = 0
         THEN Response(FALSE, "Invalid license key", "INVALID_KEY")
       ELSE IF licenses[lic].is_suspended
         THEN Response(FALSE, "License key is suspended.", "SUSPENDED")
       ELSE IF ~licenses[lic].is_active
         THEN Response(FALSE, "License key is inactive", "INACTIVE")
       ELSE IF sub = 0
         THEN Response(FALSE, "No active subscription found", "NO_SUBSCRIPTION")
       ELSE IF ~is_subscription_active(subscriptions[sub].status)
         THEN [Response(FALSE, "Subscription is inactive", "SUBSCRIPTION_INACTIVE")
                 EXCEPT !.subscription_status = Some(subscriptions[sub].status)]
       ELSE ValidResponse(subscriptions[sub])

\* LicenseService.validate_license lines 58-143: the checks, in order.  The
\* message of SUBSCRIPTION_INACTIVE names the status, carried here in
\* subscription_status.
validate_license(key) ==
    LET lic == LicenseByHash(hash_license_key(key))
        sub == get_subscription_for_user(licenses[lic].user_id)
    IN IF lic = 0
         THEN Response(FALSE, "Invalid license key", "INVALID_KEY")
       ELSE IF ~licenses[lic].is_active
         THEN Response(FALSE, "License key is inactive", "INACTIVE")
       ELSE IF licenses[lic].is_suspended
         THEN Response(FALSE, "License key is suspended.", "SUSPENDED")
       ELSE IF sub = 0
         THEN Response(FALSE, "No active subscription found", "NO_SUBSCRIPTION")
       ELSE IF ~is_subscription_active(subscriptions[sub].status)
         THEN [Response(FALSE, "Subscription is inactive", "SUBSCRIPTION_INACTIVE")
                 EXCEPT !.subscription_status = Some(subscriptions[sub].status)]
       ELSE ValidResponse(subscriptions[sub])

\* mutant of update_license_metadata: the counter of every license is bumped
update_license_metadata_all(lic) ==
    [i \in LicenseIds |->
        [licenses[i] EXCEPT !.validation_count = IF @ < MaxLogs THEN @ + 1 ELSE @]]

\* LicenseService._update_license_metadata lines 224-232: the column updates
update_license_metadata(lic) ==
    [licenses EXCEPT ![lic].validation_count = @ + 1]

\* LicenseService._update_license_metadata line 234: db.commit() is not
\* guarded, a failing commit raises out of validate_license
commit_license_metadata(commit_ok) ==
    IF commit_ok THEN "committed" ELSE "raised"

\* mutant of log_api_call: a failing log write raises to the caller
log_api_call_raising(commit_ok) == IF commit_ok THEN "logged" ELSE "raised"

\* LicenseService._log_api_call: try / except Exception: db.rollback()
log_api_call(commit_ok) == IF commit_ok THEN "logged" ELSE "swallowed"

\* main.py validate_license lines 142-147: any exception of the service is
\* answered with this verdict
ServiceError ==
    Response(FALSE, "Validation service unavailable", "SERVICE_ERROR")

\* mutant of ValidationFault: the exception leaves the endpoint
ValidationFaultUnhandled == [resp |-> "500", verdict |-> NoVerdict]

\* main.py validate_license lines 130-147: the try / except Exception around
\* the service call turns a raised exception into a 200 response
ValidationFault == [resp |-> "200", verdict |-> ServiceError]

\* LicenseService.validate_license lines 58-104: the queries for the license,
\* its user and the subscription are not guarded, a failing one raises
query_store(read_ok) == IF read_ok THEN "read" ELSE "raised"

\* main.py validate_license (POST /api/validate).  log_commits, reads and
\* metadata_commits are the outcomes the store can give to the commit of the
\* audit-log row, to the queries of the checks and to the commit of the
\* metadata update.  last.faults names the store operations that failed.
ValidateUnder(key, log_commits, reads, metadata_commits) ==
    /\ stripe_signature' = "none"
    /\ UNCHANGED <<issuing, retired>>
    /\ IF ~is_license_key_format_valid(KeyText(key))
       THEN /\ last' = [Answer("validate", key, "200") EXCEPT
                         !.verdict = Response(FALSE, "Invalid license key format", "INVALID_KEY")]
            /\ UNCHANGED <<users, licenses, subscriptions, api_logs>>
       ELSE \E log_ok \in log_commits, read_ok \in reads,
               metadata_ok \in metadata_commits :
            LET logged == log_api_call(log_ok)
                queried == logged # "raised" /\ query_store(read_ok) = "read"
                verdict == validate_license(key)
                lic == LicenseByHash(hash_license_key(key))
                updated == queried /\ verdict.valid
                stored == updated /\ commit_license_metadata(metadata_ok) = "committed"
                raised == ~queried \/ (updated /\ ~stored)
                faults == {f \in {"log"} : ~log_ok}
                            \cup {f \in {"read"} : logged # "raised" /\ ~queried}
                            \cup {f \in {"metadata"} : updated /\ ~stored}
            IN /\ logged = "logged" => Len(api_logs) < MaxLogs
               /\ stored => licenses[lic].validation_count < MaxLogs
               /\ api_logs' = IF logged = "logged"
                              THEN Append(api_logs, hash_license_key(key))
                              ELSE api_logs
               /\ licenses' = IF stored THEN update_license_metadata(lic)
                              ELSE licenses
               /\ last' = [Answer("validate", key,
                                  IF raised THEN ValidationFault.resp ELSE "200")
                            EXCEPT !.verdict = IF raised THEN ValidationFault.verdict
                                               ELSE verdict,
                                   !.faults = faults]
               /\ UNCHANGED <<users, subscriptions>>

\* a validation during which every operation of the store succeeds
Validate(key) == ValidateUnder(key, {TRUE}, {TRUE}, {TRUE})

\* ------------------------------------------------------------ license store
\* LicenseService.create_license_for_user: key is the generated key the
\* retry loop settles on (its hash is absent from the store)
create_license_for_user(u, key) ==
    Append(licenses, License(u, key, hash_license_key(key)))

\* mutant of suspend_license: the flag is flipped
suspend_license_toggle(lics, id) == [lics EXCEPT ![id].is_suspended = ~@]

\* LicenseService.suspend_license
suspend_license(lics, id) == [lics EXCEPT ![id].is_suspended = TRUE]

\* mutant of activate_license: only the suspension is lifted
activate_license_unsuspend(lics, id) == [lics EXCEPT ![id].is_suspended = FALSE]

\* LicenseService.activate_license
activate_license(lics, id) ==
    [lics EXCEPT ![id].is_suspended = FALSE, ![id].is_active = TRUE]

\* mutant of deactivate_license: the license is suspended as well
deactivate_license_suspending(lics, id) ==
    [lics EXCEPT ![id].is_active = FALSE, ![id].is_suspended = TRUE]

\* LicenseService.deactivate_license
deactivate_license(lics, id) == [lics EXCEPT ![id].is_active = FALSE]

\* mutant of rotate_license_key: the key is replaced, the hash is kept
rotate_license_key_keeping_hash(lics, id, key) ==
    [lics EXCEPT ![id].license_key = key]

\* LicenseService.rotate_license_key
rotate_license_key(lics, id, key) ==
    [lics EXCEPT ![id].license_key = key,
                 ![id].license_key_hash = hash_license_key(key)]

\* the generator's retry loop leaves with a key whose hash no license holds
FreshKey(key) == key \in Keys /\ LicenseByHash(hash_license_key(key)) = 0

\* main.py create_license (POST /api/admin/licenses)
AdminCreateLicense(email, key) ==
    /\ Len(licenses) < MaxLicenses
    /\ FreshKey(key)
    /\ users' = IF users[email] = "absent"
                THEN [users EXCEPT ![email] = "user"] ELSE users
    /\ licenses' = create_license_for_user(email, key)
    /\ last' = Answer("create_license", email, "200")
    /\ stripe_signature' = "none"
    /\ UNCHANGED <<issuing, retired>>
    /\ UNCHANGED <<subscriptions, api_logs>>

\* mutant of LicenseById: an unknown id falls back to the first license
LicenseByIdOrFirst(id) ==
    IF id \in LicenseIds THEN id ELSE IF licenses # <<>> THEN 1 ELSE 0

\* db.query(License).filter(License.id == license_id).first(): 0 is None
LicenseById(id) == IF id \in LicenseIds THEN id ELSE 0

\* main.py suspend_license / activate_license / deactivate_license
AdminSuspend(id) ==
    /\ licenses' = IF LicenseById(id) # 0
                   THEN suspend_license(licenses, LicenseById(id))
                   ELSE licenses
    /\ last' = Answer("suspend", id, IF LicenseById(id) # 0 THEN "200" ELSE "404")
    /\ stripe_signature' = "none"
    /\ UNCHANGED <<issuing, retired>>
    /\ UNCHANGED <<users, subscriptions, api_logs>>

AdminActivate(id) ==
    /\ licenses' = IF LicenseById(id) # 0
                   THEN activate_license(licenses, LicenseById(id))
                   ELSE licenses
    /\ last' = Answer("activate", id, IF LicenseById(id) # 0 THEN "200" ELSE "404")
    /\ stripe_signature' = "none"
    /\ UNCHANGED <<issuing, retired>>
    /\ UNCHANGED <<users, subscriptions, api_logs>>

AdminDeactivate(id) ==
    /\ licenses' = IF LicenseById(id) # 0
                   THEN deactivate_license(licenses, LicenseById(id))
                   ELSE licenses
    /\ last' = Answer("deactivate", id, IF LicenseById(id) # 0 THEN "200" ELSE "404")
    /\ stripe_signature' = "none"
    /\ UNCHANGED <<issuing, retired>>
    /\ UNCHANGED <<users, subscriptions, api_logs>>

\* main.py rotate_license_key (POST /api/admin/licenses/{id}/rotate)
AdminRotate(id, key) ==
    /\ LicenseById(id) # 0 => FreshKey(key)
    /\ licenses' = IF LicenseById(id) # 0
                   THEN rotate_license_key(licenses, LicenseById(id), key)
                   ELSE licenses
    /\ last' = Answer("rotate", id, IF LicenseById(id) # 0 THEN "200" ELSE "404")
    /\ stripe_signature' = "none"
    /\ retired' = IF LicenseById(id) # 0
                  THEN retired \cup {licenses[LicenseById(id)].license_key}
                  ELSE retired
    /\ UNCHANGED issuing
    /\ UNCHANGED <<users, subscriptions, api_logs>>

\* main.py set_subscription_end_time: end_time is Nothing to clear
AdminSetEndTime(id, end_time) ==
    /\ subscriptions' = IF id \in SubIds
                        THEN [subscriptions EXCEPT ![id].end_time = end_time]
                        ELSE subscriptions
    /\ last' = [Answer("set_end_time", id, IF id \in SubIds THEN "200" ELSE "404")
                  EXCEPT !.updated_at = {id} \cap SubIds]
    /\ stripe_signature' = "none"
    /\ UNCHANGED <<issuing, retired>>
    /\ UNCHANGED <<users, licenses, api_logs>>

\* main.py create_checkout_session -> StripeService._get_or_create_customer:
\* the user of this e-mail exists afterwards and carries a customer id
CreateCheckoutSession(email) ==
    /\ users' = [users EXCEPT ![email] = "customer"]
    /\ last' = Answer("checkout", email, "200")
    /\ stripe_signature' = "none"
    /\ UNCHANGED <<issuing, retired>>
    /\ UNCHANGED <<licenses, subscriptions, api_logs>>

\* -------------------------------------------------------------- key issuing
\* Two requests can both leave the generator's retry loop (the absence
\* pre-check) before either commits.  A request in flight is held by the
\* worker that serves it.
MaxIssuing == 2
Workers == 1..MaxIssuing

Request(worker, op, target, key) ==
    [worker |-> worker, op |-> op, target |-> target, key |-> key]

Busy(worker) == \E r \in issuing : r.worker = worker

\* the worker that takes the next request: workers are interchangeable, so
\* it is the first idle one (a busy worker number when none is idle)
IdleWorker ==
    IF \E w \in Workers : ~Busy(w)
    THEN CHOOSE w \in Workers : ~Busy(w) /\ \A v \in Workers : ~Busy(v) => w <= v
    ELSE CHOOSE w \in Workers : TRUE

\* mutant of UniqueHash: the store does not enforce the constraint
UniqueHashUnenforced(lics) == TRUE

\* models.py License.license_key_hash, unique=True: the constraint the
\* store checks when a commit flushes an INSERT or UPDATE of licenses
UniqueHash(lics) ==
    \A i, j \in 1..Len(lics) :
        i # j => lics[i].license_key_hash # lics[j].license_key_hash

\* main.py create_license lines 491-496 (get or create the user) and
\* create_license_for_user lines 21-28: the loop leaves with a generated key
\* whose hash no license holds at this moment
BeginCreateLicense(worker, email, key) ==
    /\ ~Busy(worker)
    /\ FreshKey(key)
    /\ users' = IF users[email] = "absent"
                THEN [users EXCEPT ![email] = "user"] ELSE users
    /\ issuing' = issuing \cup {Request(worker, "create", email, key)}
    /\ UNCHANGED <<licenses, subscriptions, api_logs, last, stripe_signature,
                   retired>>

\* create_license_for_user lines 31-41 and main.py lines 500-512: the INSERT
\* commits, or the unique constraint raises IntegrityError and the endpoint
\* answers 500
CommitCreateLicense(worker) ==
    \E r \in issuing :
        /\ r.worker = worker
        /\ r.op = "create"
        /\ Len(licenses) < MaxLicenses
        /\ LET inserted == create_license_for_user(r.target, r.key)
           IN IF UniqueHash(inserted)
              THEN /\ licenses' = inserted
                   /\ last' = Answer("create_license", r.target, "200")
              ELSE /\ licenses' = licenses
                   /\ last' = Answer("create_license", r.target, "500")
        /\ issuing' = issuing \ {r}
        /\ stripe_signature' = "none"
        /\ UNCHANGED <<users, subscriptions, api_logs, retired>>

\* rotate_license_key lines 175-186: the license exists and the loop leaves
\* with a generated key whose hash no license holds at this moment
BeginRotate(worker, id, key) ==
    /\ ~Busy(worker)
    /\ id \in LicenseIds
    /\ FreshKey(key)
    /\ issuing' = issuing \cup {Request(worker, "rotate", id, key)}
    /\ UNCHANGED <<users, licenses, subscriptions, api_logs, last,
                   stripe_signature, retired>>

\* rotate_license_key lines 188-193 and main.py lines 594-608: the UPDATE
\* commits and the old key is gone, or the unique constraint raises
\* IntegrityError and the endpoint answers 500
CommitRotate(worker) ==
    \E r \in issuing :
        /\ r.worker = worker
        /\ r.op = "rotate"
        /\ LET rotated == rotate_license_key(licenses, r.target, r.key)
           IN IF UniqueHash(rotated)
              THEN /\ licenses' = rotated
                   /\ retired' = retired \cup {licenses[r.target].license_key}
                   /\ last' = Answer("rotate", r.target, "200")
              ELSE /\ UNCHANGED <<licenses, retired>>
                   /\ last' = Answer("rotate", r.target, "500")
        /\ issuing' = issuing \ {r}
        /\ stripe_signature' = "none"
        /\ UNCHANGED <<users, subscriptions, api_logs>>

\* ------------------------------------------------- billing event synchronizer
\* a checkout session that names no customer
NoCustomer == MaxUsers + 1
\* stripe.Subscription.retrieve raised StripeError
StripeError == "stripe_error"
\* the status strings the provider sends in the modelled deliveries
ProviderStatuses ==
    {"active", "trialing", "past_due", "canceled", "unpaid", "incomplete",
     UnknownStatus}
SigHeaders == {"missing", "invalid", "valid"}

\* mutant of construct_webhook_event: the event is returned unverified
construct_webhook_event_unverified(sig_header) == TRUE

\* StripeService.construct_webhook_event: TRUE when an event is returned
construct_webhook_event(sig_header) == sig_header = "valid"

\* the answer of the webhook endpoint to a delivery that passed verification
Event(type, ref, resp, touched) ==
    [Answer(type, ref, resp) EXCEPT !.touched = touched]

\* mutants of CascadeStatuses: unpaid forgotten; past_due included (line 87)
CascadeStatusesCanceledOnly == {"canceled"}

CascadeStatusesWithPastDue == {"canceled", "unpaid", "past_due"}

\* the statuses on which handle_subscription_updated suspends (line 92)
CascadeStatuses == {"canceled", "unpaid"}

\* webhooks/stripe.py handle_subscription_updated lines 93-95
SuspendOnUpdate(u) ==
    {i \in get_licenses_for_user(u) :
        licenses[i].is_active /\ ~licenses[i].is_suspended}

\* mutant of SuspendOnDelete: only the first license found is suspended
SuspendOnDeleteFirst(u) ==
    {i \in get_licenses_for_user(u) :
        licenses[i].is_active /\ \A j \in get_licenses_for_user(u) : i <= j}

\* webhooks/stripe.py handle_subscription_deleted lines 118-120
SuspendOnDelete(u) ==
    {i \in get_licenses_for_user(u) : licenses[i].is_active}

\* webhooks/stripe.py handle_invoice_payment_succeeded lines 165-167
ReactivateOnPayment(u) ==
    {i \in get_licenses_for_user(u) :
        licenses[i].is_suspended /\ ~licenses[i].is_active}

\* mutant of SuspendAll: is_suspended is set for the ids and cleared for
\* every other license
SuspendAllClearingOthers(ids) ==
    [i \in LicenseIds |-> [licenses[i] EXCEPT !.is_suspended = i \in ids]]

\* suspend_license applied to every id of a set
SuspendAll(ids) ==
    [i \in LicenseIds |->
        IF i \in ids THEN suspend_license(licenses, i)[i] ELSE licenses[i]]

\* activate_license applied to every id of a set
ActivateAll(ids) ==
    [i \in LicenseIds |->
        IF i \in ids THEN activate_license(licenses, i)[i] ELSE licenses[i]]

\* webhooks/stripe.py stripe_webhook lines 19-29: the signature gate.
\* handled is the dispatch of lines 31-55.
stripe_webhook(sig_header, handled) ==
    /\ stripe_signature' = sig_header
    /\ UNCHANGED <<issuing, retired>>
    /\ IF sig_header = "missing"
       THEN /\ last' = Answer("webhook", 0, "400 Missing stripe signature")
            /\ UNCHANGED <<users, licenses, subscriptions, api_logs>>
       ELSE IF ~construct_webhook_event(sig_header)
       THEN /\ last' = Answer("webhook", 0, "400 Invalid webhook signature")
            /\ UNCHANGED <<users, licenses, subscriptions, api_logs>>
       ELSE handled

\* what stripe.Subscription.retrieve answers: the subscription's status,
\* period end and cancel flag; the status StripeError stands for the raise
Retrieved(status, cpe, cancel) ==
    [status |-> status, current_period_end |-> cpe, cancel_at_period_end |-> cancel]

\* webhooks/stripe.py handle_checkout_completed with
\* StripeService.handle_checkout_completed.  provider is the set of answers
\* stripe.Subscription.retrieve can give; key is the generated license key;
\* license_commit is FALSE when the commit of the license insert raises.
handle_checkout_completed(customer, ref, provider, key) ==
    LET type == "checkout.session.completed" IN
    IF \/ customer = NoCustomer
       \/ ref = NoRef
       \/ users[customer] # "customer"
    THEN \* the service returns None: logged, answered 200
         /\ last' = Event(type, ref, "success", {})
         /\ UNCHANGED <<users, licenses, subscriptions, api_logs>>
    ELSE \E prov \in provider :
         IF prov.status = StripeError
         THEN /\ last' = Event(type, ref, "success", {})
              /\ UNCHANGED <<users, licenses, subscriptions, api_logs>>
         ELSE IF prov.status \notin SubscriptionStatus \/ SubscriptionByRef(ref) # 0
         THEN \* ValueError of the enum, or the unique constraint at commit
              /\ last' = Event(type, ref, "500", {})
              /\ UNCHANGED <<users, licenses, subscriptions, api_logs>>
         ELSE /\ Len(subscriptions) < MaxSubs
              /\ Len(licenses) < MaxLicenses
              /\ FreshKey(key)
              /\ subscriptions' =
                     Append(subscriptions,
                            Subscription(ref, customer, prov.status,
                                         prov.current_period_end,
                                         prov.cancel_at_period_end))
              /\ \E license_commit \in BOOLEAN :
                    IF license_commit
                    THEN /\ licenses' = create_license_for_user(customer, key)
                         /\ last' = Event(type, ref, "success", {Len(licenses) + 1})
                    ELSE /\ licenses' = licenses
                         /\ last' = Event(type, ref, "500", {})
              /\ UNCHANGED <<users, api_logs>>

\* webhooks/stripe.py handle_subscription_updated with
\* StripeService.handle_subscription_updated
handle_subscription_updated(ref, status, cpe, cancel) ==
    LET type == "customer.subscription.updated"
        sub == SubscriptionByRef(ref)
        u == subscriptions[sub].user_id
        hit == IF status \in CascadeStatuses THEN SuspendOnUpdate(u) ELSE {}
    IN IF sub = 0
       THEN /\ last' = Event(type, ref, "success", {})
            /\ UNCHANGED <<users, licenses, subscriptions, api_logs>>
       ELSE IF status \notin SubscriptionStatus
       THEN /\ last' = Event(type, ref, "500", {})
            /\ UNCHANGED <<users, licenses, subscriptions, api_logs>>
       ELSE /\ subscriptions' =
                   [subscriptions EXCEPT ![sub].status = status,
                                         ![sub].current_period_end = cpe,
                                         ![sub].cancel_at_period_end = cancel]
            /\ licenses' = SuspendAll(hit)
            /\ last' = Event(type, ref, "success", hit)
            /\ UNCHANGED <<users, api_logs>>

\* webhooks/stripe.py handle_subscription_deleted with
\* StripeService.handle_subscription_deleted
handle_subscription_deleted(ref) ==
    LET type == "customer.subscription.deleted"
        sub == SubscriptionByRef(ref)
        u == subscriptions[sub].user_id
    IN IF sub = 0
       THEN /\ last' = Event(type, ref, "success", {})
            /\ UNCHANGED <<users, licenses, subscriptions, api_logs>>
       ELSE /\ subscriptions' = [subscriptions EXCEPT ![sub].status = "canceled"]
            /\ licenses' = SuspendAll(SuspendOnDelete(u))
            /\ last' = Event(type, ref, "success", SuspendOnDelete(u))
            /\ UNCHANGED <<users, api_logs>>

\* mutant of handle_invoice_payment_failed: the failed payment also suspends
\* the user's licenses
handle_invoice_payment_failed_suspending(ref) ==
    LET type == "invoice.payment_failed"
        sub == SubscriptionByRef(ref)
        u == subscriptions[sub].user_id
    IN IF ref = NoRef \/ sub = 0
       THEN /\ last' = Event(type, ref, "success", {})
            /\ UNCHANGED <<users, licenses, subscriptions, api_logs>>
       ELSE /\ subscriptions' = [subscriptions EXCEPT ![sub].status = "past_due"]
            /\ licenses' = SuspendAll(SuspendOnUpdate(u))
            /\ last' = Event(type, ref, "success", SuspendOnUpdate(u))
            /\ UNCHANGED <<users, api_logs>>

\* webhooks/stripe.py handle_invoice_payment_failed with
\* StripeService.handle_invoice_payment_failed
handle_invoice_payment_failed(ref) ==
    LET type == "invoice.payment_failed"
        sub == SubscriptionByRef(ref)
    IN IF ref = NoRef \/ sub = 0
       THEN /\ last' = Event(type, ref, "success", {})
            /\ UNCHANGED <<users, licenses, subscriptions, api_logs>>
       ELSE /\ subscriptions' = [subscriptions EXCEPT ![sub].status = "past_due"]
            /\ last' = Event(type, ref, "success", {})
            /\ UNCHANGED <<users, licenses, api_logs>>

\* mutant of AwaitingPayment: a paid invoice is applied in any stored status
AwaitingPaymentAnyStatus(status) == status \in SubscriptionStatus

\* webhooks/stripe.py line 150: the stored status a paid invoice acts on
AwaitingPayment(status) == status = "past_due"

\* webhooks/stripe.py handle_invoice_payment_succeeded; live is the set of
\* answers StripeService.get_subscription_details can give (StripeError is
\* its None)
handle_invoice_payment_succeeded(ref, live) ==
    LET type == "invoice.payment_succeeded"
        sub == SubscriptionByRef(ref)
        u == subscriptions[sub].user_id
    IN IF ref = NoRef \/ sub = 0 \/ ~AwaitingPayment(subscriptions[sub].status)
       THEN /\ last' = Event(type, ref, "success", {})
            /\ UNCHANGED <<users, licenses, subscriptions, api_logs>>
       ELSE \E prov \in live :
            IF prov = "active"
            THEN /\ subscriptions' = [subscriptions EXCEPT ![sub].status = "active"]
                 /\ licenses' = ActivateAll(ReactivateOnPayment(u))
                 /\ last' = Event(type, ref, "success", ReactivateOnPayment(u))
                 /\ UNCHANGED <<users, api_logs>>
            ELSE /\ last' = Event(type, ref, "success", {})
                 /\ UNCHANGED <<users, licenses, subscriptions, api_logs>>

\* one webhook delivery per event kind
WebhookCheckoutCompleted(sig, customer, ref, provider, key) ==
    stripe_webhook(sig, handle_checkout_completed(customer, ref, provider, key))

WebhookSubscriptionUpdated(sig, ref, status, cpe, cancel) ==
    stripe_webhook(sig, handle_subscription_updated(ref, status, cpe, cancel))

WebhookSubscriptionDeleted(sig, ref) ==
    stripe_webhook(sig, handle_subscription_deleted(ref))

WebhookInvoicePaymentFailed(sig, ref) ==
    stripe_webhook(sig, handle_invoice_payment_failed(ref))

WebhookInvoicePaymentSucceeded(sig, ref, live) ==
    stripe_webhook(sig, handle_invoice_payment_succeeded(ref, live))

\* ------------------------------------------------------------ specification
\* Generated keys and Stripe references are opaque tokens: the generator's
\* outcome is represented by the smallest key no license holds, a new
\* subscription's reference by the smallest reference not yet stored.
GeneratedKey ==
    CHOOSE k \in Keys : FreshKey(k) /\ \A j \in Keys : FreshKey(j) => k <= j

NextRef == IF Len(subscriptions) < MaxSubs THEN {Len(subscriptions) + 1} ELSE {}

CheckoutRefs == {r \in Refs : SubscriptionByRef(r) # 0} \cup NextRef \cup {NoRef}

\* The content of a delivery.  A delivery that fails verification is never
\* read, so it is represented by the deliveries that name a stored reference.
EventRefs(sig) ==
    IF sig = "valid" THEN Refs \cup {NoRef}
    ELSE {r \in Refs : SubscriptionByRef(r) # 0} \cup NextRef
EventStatuses(sig) == IF sig = "valid" THEN ProviderStatuses ELSE {"canceled"}
Customers(sig) == IF sig = "valid" THEN Emails \cup {NoCustomer} ELSE Emails

\* the provider's answers at checkout, with the billing period data held
\* fixed: a subscription that is active, trialing, still incomplete or in a
\* status the enum lacks, or a StripeError
CheckoutStatuses == {"active", "trialing", "incomplete", UnknownStatus, StripeError}

CheckoutAnswers == {Retrieved(st, Now, FALSE) : st \in CheckoutStatuses}

\* the live status the provider reports after a paid invoice
LiveStatuses == {"active", "past_due", StripeError}

\* the lifecycle: licenses, subscriptions and billing events
Next ==
    \/ \E key \in KeyInputs : Validate(key)
    \/ \E e \in Emails : AdminCreateLicense(e, GeneratedKey)
    \/ \E id \in 1..MaxLicenses : AdminSuspend(id)
    \/ \E id \in 1..MaxLicenses : AdminActivate(id)
    \/ \E id \in 1..MaxLicenses : AdminDeactivate(id)
    \/ \E e \in Emails : CreateCheckoutSession(e)
    \/ \E sig \in SigHeaders : \E c \in Customers(sig), ref \in CheckoutRefs :
            WebhookCheckoutCompleted(sig, c, ref, CheckoutAnswers, GeneratedKey)
    \/ \E sig \in SigHeaders : \E ref \in EventRefs(sig), status \in EventStatuses(sig) :
            WebhookSubscriptionUpdated(sig, ref, status, Now, FALSE)
    \/ \E sig \in SigHeaders : \E ref \in EventRefs(sig) :
            WebhookSubscriptionDeleted(sig, ref)
    \/ \E sig \in SigHeaders : \E ref \in EventRefs(sig) :
            WebhookInvoicePaymentFailed(sig, ref)
    \/ \E sig \in SigHeaders : \E ref \in EventRefs(sig) :
            WebhookInvoicePaymentSucceeded(sig, ref, LiveStatuses)

Spec == Init /\ [][Next]_vars

\* The expiry scenario: one user with one subscription whose billing period,
\* cancel flag and override end time vary.
ExpiryAnswers ==
    {Retrieved(st, cpe, cancel) :
        st \in {"active", "trialing"}, cpe \in Times, cancel \in BOOLEAN}

NextExpiry ==
    \/ \E key \in KeyInputs : Validate(key)
    \/ \E id \in 1..MaxLicenses : AdminSuspend(id)
    \/ \E id \in 1..MaxLicenses : AdminDeactivate(id)
    \/ \E id \in 1..MaxSubs, t \in OptTimes : AdminSetEndTime(id, t)
    \/ \E e \in Emails : CreateCheckoutSession(e)
    \/ \E c \in Emails :
            /\ subscriptions = <<>>
            /\ WebhookCheckoutCompleted("valid", c, 1, ExpiryAnswers, GeneratedKey)
    \/ \E status \in {"active", "canceled"}, cpe \in Times, cancel \in BOOLEAN :
            WebhookSubscriptionUpdated("valid", 1, status, cpe, cancel)

SpecExpiry == Init /\ [][NextExpiry]_vars

\* Key issuing: creations and rotations whose pre-check and commit
\* interleave, with the generator free to return any well-formed key.
NextKeys ==
    \/ \E key \in Keys : Validate(key)
    \/ \E e \in Emails, key \in Keys : BeginCreateLicense(IdleWorker, e, key)
    \/ \E w \in Workers : CommitCreateLicense(w)
    \/ \E id \in 1..MaxLicenses, key \in Keys : BeginRotate(IdleWorker, id, key)
    \/ \E w \in Workers : CommitRotate(w)
    \/ \E id \in 1..(MaxLicenses + 1), key \in Keys : AdminRotate(id, key)
    \/ \E e \in Emails : CreateCheckoutSession(e)
    \/ \E c \in Emails, key \in Keys :
            /\ subscriptions = <<>>
            /\ WebhookCheckoutCompleted("valid", c, 1,
                                        {Retrieved("active", Now, FALSE)}, key)

SpecKeys == Init /\ [][NextKeys]_vars

\* Store faults during validation: the commit of the audit-log row, the
\* queries of the checks and the commit of the metadata update can each fail.
NextFaults ==
    \/ \E key \in KeyInputs : ValidateUnder(key, BOOLEAN, BOOLEAN, BOOLEAN)
    \/ \E id \in 1..MaxLicenses : AdminSuspend(id)
    \/ \E id \in 1..MaxLicenses : AdminDeactivate(id)
    \/ \E e \in Emails : CreateCheckoutSession(e)
    \/ \E c \in Emails :
            /\ subscriptions = <<>>
            /\ WebhookCheckoutCompleted("valid", c, 1, CheckoutAnswers, GeneratedKey)
    \/ \E status \in {"active", "past_due"} :
            WebhookSubscriptionUpdated("valid", 1, status, Now, FALSE)

SpecFaults == Init /\ [][NextFaults]_vars

\* ------------------------------------------------- a cascade that fails
\* The status of the subscription is committed by the StripeService method;
\* every suspend_license of the loop that follows commits on its own.  When
\* the commit of one suspend_license raises, the exception reaches
\* stripe_webhook (500) after the status and the suspensions committed so far
\* have persisted.  get_licenses_for_user has no ORDER BY, so the licenses
\* already suspended are any proper subset of those the loop had to suspend.
CascadeFailing(type, ref, changed, hit) ==
    /\ hit # {}
    /\ \E done \in (SUBSET hit) \ {hit} :
          /\ subscriptions' = changed
          /\ licenses' = SuspendAll(done)
          /\ last' = [Event(type, ref, "500", done) EXCEPT !.faults = {"suspend"}]
    /\ UNCHANGED <<users, api_logs>>

\* webhooks/stripe.py handle_subscription_updated lines 80-96 when a
\* suspend_license commit raises
handle_subscription_updated_failing(ref, status, cpe, cancel) ==
    LET sub == SubscriptionByRef(ref)
    IN /\ sub # 0
       /\ status \in CascadeStatuses
       /\ CascadeFailing("customer.subscription.updated", ref,
                         [subscriptions EXCEPT ![sub].status = status,
                                               ![sub].current_period_end = cpe,
                                               ![sub].cancel_at_period_end = cancel],
                         SuspendOnUpdate(subscriptions[sub].user_id))

\* webhooks/stripe.py handle_subscription_deleted lines 103-121 when a
\* suspend_license commit raises
handle_subscription_deleted_failing(ref) ==
    LET sub == SubscriptionByRef(ref)
    IN /\ sub # 0
       /\ CascadeFailing("customer.subscription.deleted", ref,
                         [subscriptions EXCEPT ![sub].status = "canceled"],
                         SuspendOnDelete(subscriptions[sub].user_id))

\* One customer with two licenses whose subscription is canceled or deleted,
\* with and without a failing commit in the cascade.
NextCascade ==
    \/ \E key \in Keys : Validate(key)
    \/ \E e \in Emails : AdminCreateLicense(e, GeneratedKey)
    \/ \E id \in 1..MaxLicenses : AdminActivate(id)
    \/ \E e \in Emails : CreateCheckoutSession(e)
    \/ \E c \in Emails :
            /\ subscriptions = <<>>
            /\ WebhookCheckoutCompleted("valid", c, 1,
                                        {Retrieved("active", Now, FALSE)},
                                        GeneratedKey)
    \/ \E status \in {"active", "canceled", "unpaid"} :
            WebhookSubscriptionUpdated("valid", 1, status, Now, FALSE)
    \/ WebhookSubscriptionDeleted("valid", 1)
    \/ \E status \in {"canceled", "unpaid"} :
            stripe_webhook("valid",
                           handle_subscription_updated_failing(1, status, Now, FALSE))
    \/ stripe_webhook("valid", handle_subscription_deleted_failing(1))

SpecCascade == Init /\ [][NextCascade]_vars

\* ------------------------------------------------- concurrent validations
\* Validations served by different processes, each with its own session.  A
\* session loads the license row with the query of validate_license line 60
\* and writes the row back with the commit of _update_license_metadata.
MaxValidations == 3
Sessions == 1..MaxValidations

\* the license row a session holds: the validation_count it loaded
Loaded(session, op, lic, count) ==
    [worker |-> session, op |-> op, target |-> lic, validation_count |-> count]

\* main.py validate_license up to the checks of LicenseService.validate_license
\* lines 58-104: the session logs the call, loads the row and finds the
\* license valid
LoadLicense(session, key) ==
    LET lic == LicenseByHash(hash_license_key(key))
    IN /\ ~Busy(session)
       /\ is_license_key_format_valid(KeyText(key))
       /\ validate_license(key).valid
       /\ api_logs' = Append(api_logs, hash_license_key(key))
       /\ issuing' = issuing \cup
                        {Loaded(session, "loaded", lic, licenses[lic].validation_count)}
       /\ last' = Answer("load", key, "none")
       /\ stripe_signature' = "none"
       /\ UNCHANGED <<users, licenses, subscriptions, retired>>

\* LicenseService._update_license_metadata lines 224-234:
\* license.validation_count += 1 adds one to the value the session loaded,
\* and db.commit() writes that value to the row
StoreLicenseMetadata(session) ==
    \E r \in issuing :
        /\ r.worker = session
        /\ r.op = "loaded"
        /\ licenses' = [licenses EXCEPT
                            ![r.target].validation_count = r.validation_count + 1]
        /\ issuing' = (issuing \ {r})
                        \cup {Loaded(session, "validated", r.target, r.validation_count + 1)}
        /\ last' = [Answer("validate", licenses[r.target].license_key, "200") EXCEPT
                      !.verdict = validate_license(licenses[r.target].license_key)]
        /\ stripe_signature' = "none"
        /\ UNCHANGED <<users, subscriptions, api_logs, retired>>

\* one license in good standing, validated by sessions that overlap
NextCounter ==
    \/ \E session \in Sessions, key \in Keys : LoadLicense(session, key)
    \/ \E session \in Sessions : StoreLicenseMetadata(session)
    \/ \E e \in Emails : CreateCheckoutSession(e)
    \/ \E e \in Emails : AdminCreateLicense(e, GeneratedKey)
    \/ \E c \in Emails :
            /\ subscriptions = <<>>
            /\ WebhookCheckoutCompleted("valid", c, 1,
                                        {Retrieved("active", Now, FALSE)},
                                        GeneratedKey)

SpecCounter == Init /\ [][NextCounter]_vars

\* ------------------------------------------------- concurrent deliveries
\* The same checkout.session.completed event delivered more than once, the
\* deliveries served by sessions that overlap.  A delivery that has ended
\* stays recorded with its outcome.
Delivery(session, op, ref, customer) ==
    [worker |-> session, op |-> op, target |-> ref, customer |-> customer]

\* mutant of UniqueRef: the store does not enforce the constraint
UniqueRefUnenforced(subs) == TRUE

\* models.py Subscription.stripe_subscription_id, unique=True: the
\* constraint the store checks when a commit flushes an INSERT
UniqueRef(subs) ==
    \A i, j \in 1..Len(subs) :
        i # j => subs[i].stripe_subscription_id # subs[j].stripe_subscription_id

\* StripeService.handle_checkout_completed lines 77-98: the user is found,
\* the provider returns the subscription and the row is built
RetrieveCheckout(session, customer, ref) ==
    /\ ~Busy(session)
    /\ users[customer] = "customer"
    /\ issuing' = issuing \cup {Delivery(session, "retrieved", ref, customer)}
    /\ last' = Answer("deliver", ref, "none")
    /\ stripe_signature' = "valid"
    /\ UNCHANGED <<users, licenses, subscriptions, api_logs, retired>>

\* StripeService.handle_checkout_completed lines 100-102: the INSERT
\* commits, or the unique constraint raises IntegrityError, which
\* stripe_webhook answers with 500
CommitSubscription(session) ==
    \E r \in issuing :
        /\ r.worker = session
        /\ r.op = "retrieved"
        /\ LET inserted == Append(subscriptions,
                                  Subscription(r.target, r.customer, "active",
                                               Now, FALSE))
           IN IF UniqueRef(inserted)
              THEN /\ Len(subscriptions) < MaxSubs
                   /\ subscriptions' = inserted
                   /\ issuing' = (issuing \ {r}) \cup {[r EXCEPT !.op = "subscribed"]}
                   /\ last' = Answer("deliver", r.target, "none")
              ELSE /\ subscriptions' = subscriptions
                   /\ issuing' = (issuing \ {r}) \cup {[r EXCEPT !.op = "rejected"]}
                   /\ last' = Event("checkout.session.completed", r.target, "500", {})
        /\ stripe_signature' = "valid"
        /\ UNCHANGED <<users, licenses, api_logs, retired>>

\* webhooks/stripe.py handle_checkout_completed lines 68-71: the license of
\* the delivery whose subscription was stored
CommitLicense(session) ==
    \E r \in issuing :
        /\ r.worker = session
        /\ r.op = "subscribed"
        /\ Len(licenses) < MaxLicenses
        /\ licenses' = create_license_for_user(r.customer, GeneratedKey)
        /\ issuing' = (issuing \ {r}) \cup {[r EXCEPT !.op = "granted"]}
        /\ last' = Event("checkout.session.completed", r.target, "success",
                         {Len(licenses) + 1})
        /\ stripe_signature' = "valid"
        /\ UNCHANGED <<users, subscriptions, api_logs, retired>>

NextCheckout ==
    \/ \E e \in Emails : CreateCheckoutSession(e)
    \/ \E session \in Sessions, c \in Emails, ref \in Refs :
            RetrieveCheckout(session, c, ref)
    \/ \E session \in Sessions : CommitSubscription(session)
    \/ \E session \in Sessions : CommitLicense(session)
    \/ \E key \in Keys : Validate(key)

SpecCheckout == Init /\ [][NextCheckout]_vars

\* tasks.py cleanup_expired_subscriptions lines 103-110: the subscriptions the
\* sweep selects, by status and current_period_end alone
expired_subscriptions ==
    {i \in SubIds :
        /\ subscriptions[i].status \in {"canceled", "ended", "unpaid"}
        /\ subscriptions[i].current_period_end < Now}

\* tasks.py cleanup_expired_subscriptions lines 114-120: the licenses it suspends
SuspendOnCleanup ==
    {l \in LicenseIds :
        /\ \E i \in expired_subscriptions : licenses[l].user_id = subscriptions[i].user_id
        /\ licenses[l].is_active
        /\ ~licenses[l].is_suspended}

\* tasks.py cleanup_expired_subscriptions, one run of the maintenance task
cleanup_expired_subscriptions ==
    /\ licenses' = SuspendAll(SuspendOnCleanup)
    /\ last' = [Idle EXCEPT !.op = "cleanup_expired_subscriptions",
                            !.resp = "done",
                            !.touched = SuspendOnCleanup]
    /\ stripe_signature' = "none"
    /\ UNCHANGED <<issuing, retired>>
    /\ UNCHANGED <<users, subscriptions, api_logs>>

\* Maintenance: one subscription that lapses, is extended by an override end
\* time, and whose license the operator reactivates, with the sweep running
\* in between.
NextSweep ==
    \/ \E key \in Keys : Validate(key)
    \/ \E id \in 1..MaxLicenses : AdminActivate(id)
    \/ \E id \in 1..MaxSubs, t \in OptTimes : AdminSetEndTime(id, t)
    \/ \E e \in Emails : CreateCheckoutSession(e)
    \/ \E c \in Emails :
            /\ subscriptions = <<>>
            /\ WebhookCheckoutCompleted("valid", c, 1,
                                        {Retrieved("active", Now, FALSE)},
                                        GeneratedKey)
    \/ \E status \in {"active", "canceled", "unpaid"}, cpe \in Times :
            WebhookSubscriptionUpdated("valid", 1, status, cpe, FALSE)
    \/ cleanup_expired_subscriptions

SpecSweep == Init /\ [][NextSweep]_vars

\* The operator console: the license endpoints called with ids that exist and
\* ids that match no license.
NextAdmin ==
    \/ \E key \in Keys : Validate(key)
    \/ \E e \in Emails : AdminCreateLicense(e, GeneratedKey)
    \/ \E id \in 1..(MaxLicenses + 1) : AdminSuspend(id)
    \/ \E id \in 1..(MaxLicenses + 1) : AdminActivate(id)
    \/ \E id \in 1..(MaxLicenses + 1) : AdminDeactivate(id)
    \/ \E id \in 1..(MaxLicenses + 1), key \in Keys : AdminRotate(id, key)
    \/ \E e \in Emails : CreateCheckoutSession(e)
    \/ \E c \in Emails :
            /\ subscriptions = <<>>
            /\ WebhookCheckoutCompleted("valid", c, 1,
                                        {Retrieved("active", Now, FALSE)},
                                        GeneratedKey)

SpecAdmin == Init /\ [][NextAdmin]_vars

\* The key format: the generator applied to every byte string it can draw and
\* the format check applied to candidates of every length up to one more than
\* the key length, over characters inside and outside the alphabet.
CandidateChars == {"A", "z", "0", "-", "_", "+", "/", "=", " "}
Candidates ==
    UNION {[1..n -> CandidateChars] : n \in 0..(license_key_length + 1)}

FormatAnswer(op, text) ==
    Answer(op, text,
           IF is_license_key_format_valid(text) THEN "accepted" ELSE "rejected")

\* security.py generate_license_key, its result handed to the format check
GenerateKey(bytes) ==
    /\ last.op = "init"
    /\ last' = FormatAnswer("generate", generate_license_key(bytes))
    /\ UNCHANGED <<users, licenses, subscriptions, api_logs, stripe_signature,
                   issuing, retired>>

\* security.py is_license_key_format_valid on a candidate
CheckFormat(candidate) ==
    /\ last.op = "init"
    /\ last' = FormatAnswer("format", candidate)
    /\ UNCHANGED <<users, licenses, subscriptions, api_logs, stripe_signature,
                   issuing, retired>>

NextFormat ==
    \/ \E bytes \in RandomBytes : GenerateKey(bytes)
    \/ \E candidate \in Candidates : CheckFormat(candidate)

SpecFormat == Init /\ [][NextFormat]_vars

\* ------------------------------------------------- operator subscriptions
\* main.py map_status_to_enum lines 723-744: the dictionary
status_mapping ==
    "active" :> "active"
    @@ "trialing" :> "trialing"
    @@ "past_due" :> "past_due"
    @@ "canceled" :> "canceled"
    @@ "cancelled" :> "canceled"
    @@ "unpaid" :> "unpaid"
    @@ "incomplete" :> "incomplete"
    @@ "incomplete_expired" :> "incomplete_expired"
    @@ "ended" :> "ended"
    @@ "ACTIVE" :> "active"
    @@ "TRIALING" :> "trialing"
    @@ "PAST_DUE" :> "past_due"
    @@ "CANCELED" :> "canceled"
    @@ "CANCELLED" :> "canceled"
    @@ "UNPAID" :> "unpaid"
    @@ "INCOMPLETE" :> "incomplete"
    @@ "INCOMPLETE_EXPIRED" :> "incomplete_expired"
    @@ "ENDED" :> "ended"

\* the dictionary without its upper-case entries
status_mapping_lowercase ==
    "active" :> "active"
    @@ "trialing" :> "trialing"
    @@ "past_due" :> "past_due"
    @@ "canceled" :> "canceled"
    @@ "cancelled" :> "canceled"
    @@ "unpaid" :> "unpaid"
    @@ "incomplete" :> "incomplete"
    @@ "incomplete_expired" :> "incomplete_expired"
    @@ "ended" :> "ended"

\* mutant of map_status_to_enum: upper-case names are not recognised
map_status_to_enum_lowercase(status_str) ==
    IF status_str \in DOMAIN status_mapping_lowercase
    THEN status_mapping_lowercase[status_str]
    ELSE "active"

\* main.py map_status_to_enum lines 746-751
map_status_to_enum(status_str) ==
    IF status_str \in DOMAIN status_mapping
    THEN status_mapping[status_str]
    ELSE "active"

\* the status strings an operator sends: every entry of the dictionary and
\* strings it lacks (mixed case, a Stripe status the enum lacks, the empty
\* string)
StatusStrings == DOMAIN status_mapping \cup {"Canceled", UnknownStatus, ""}

\* the stripe_subscription_id the endpoints make up for a row,
\* f"manual_{plan_prefix}_sub_{user.id}_{timestamp}": never a Stripe reference
ManualRef(id) == 0 - id

\* main.py create_subscription (POST /api/admin/subscriptions)
AdminCreateSubscription(email, status_str) ==
    /\ Len(subscriptions) < MaxSubs
    /\ users' = IF users[email] = "absent"
                THEN [users EXCEPT ![email] = "user"] ELSE users
    /\ subscriptions' =
           Append(subscriptions,
                  Subscription(ManualRef(Len(subscriptions) + 1), email,
                               map_status_to_enum(status_str), Now + 30, FALSE))
    /\ last' = Answer("create_subscription", <<email, status_str>>, "200")
    /\ stripe_signature' = "none"
    /\ UNCHANGED <<licenses, api_logs, issuing, retired>>

\* main.py update_subscription (PUT /api/admin/subscriptions/{id}); the
\* request always names a user and a plan, and a reference that is not a
\* manual one of the plan is replaced
AdminUpdateSubscription(id, email, status_str) ==
    /\ users' = IF id \in SubIds /\ users[email] = "absent"
                THEN [users EXCEPT ![email] = "user"] ELSE users
    /\ subscriptions' =
           IF id \in SubIds
           THEN [subscriptions EXCEPT
                    ![id].status = map_status_to_enum(status_str),
                    ![id].user_id = email,
                    ![id].stripe_subscription_id = ManualRef(id)]
           ELSE subscriptions
    /\ last' = [Answer("update_subscription", <<id, status_str>>,
                       IF id \in SubIds THEN "200" ELSE "404")
                  EXCEPT !.updated_at = {id} \cap SubIds]
    /\ stripe_signature' = "none"
    /\ UNCHANGED <<licenses, api_logs, issuing, retired>>

\* an operator who creates licenses and one subscription by hand and then
\* edits it
NextOperator ==
    \/ \E key \in Keys : Validate(key)
    \/ \E e \in Emails : AdminCreateLicense(e, GeneratedKey)
    \/ \E e \in Emails, status_str \in StatusStrings :
            /\ subscriptions = <<>>
            /\ AdminCreateSubscription(e, status_str)
    \/ \E id \in 1..(MaxSubs + 1), e \in Emails, status_str \in StatusStrings :
            AdminUpdateSubscription(id, e, status_str)

SpecOperator == Init /\ [][NextOperator]_vars

\* ------------------------------------------------- the subscription listing
\* GET /api/admin/subscriptions computes two columns per row from the row's
\* end_time and current_period_end.  timedelta.days rounds down to whole
\* days, so the listing is taken over timestamps finer than a day.
TicksPerDay == 2
ListingNow == Now * TicksPerDay
ListingTimes == (ListingNow - TicksPerDay - 1)..(ListingNow + 8 * TicksPerDay + 1)
OptListingTimes == {Nothing} \cup {Some(t) : t \in ListingTimes}

\* datetime.timedelta.days: the whole days of a difference, rounded towards
\* minus infinity
timedelta_days(delta) == delta \div TicksPerDay

\* main.py get_subscriptions lines 671-675
listing_effective_expiry(end_time, current_period_end) ==
    IF end_time # Nothing THEN end_time
    ELSE IF current_period_end # Nothing THEN current_period_end
    ELSE Nothing

\* mutant of expiration_status: the seventh day already counts as active
expiration_status_week_exclusive(days_diff) ==
    IF days_diff < 0 THEN "expired"
    ELSE IF days_diff < 7 THEN "expires_soon"
    ELSE "active"

\* main.py get_subscriptions lines 681-686
expiration_status(days_diff) ==
    IF days_diff < 0 THEN "expired"
    ELSE IF days_diff <= 7 THEN "expires_soon"
    ELSE "active"

\* main.py get_subscriptions lines 667-686: the two computed columns of a row
ListedRow(end_time, current_period_end) ==
    LET effective_expiry == listing_effective_expiry(end_time, current_period_end)
        days_diff == timedelta_days(The(effective_expiry) - ListingNow)
    IN IF effective_expiry = Nothing
       THEN [days_until_expiry |-> Nothing, expiration_status |-> "unknown"]
       ELSE [days_until_expiry |-> Some(days_diff),
             expiration_status |-> expiration_status(days_diff)]

\* main.py get_subscriptions on a subscription with the given timestamps
GetSubscriptions(end_time, current_period_end) ==
    /\ last.op = "init"
    /\ last' = Answer("get_subscriptions", <<end_time, current_period_end>>,
                      ListedRow(end_time, current_period_end))
    /\ UNCHANGED <<users, licenses, subscriptions, api_logs, stripe_signature,
                   issuing, retired>>

NextListing ==
    \E end_time \in OptListingTimes, current_period_end \in OptListingTimes :
        GetSubscriptions(end_time, current_period_end)

SpecListing == Init /\ [][NextListing]_vars

\* ------------------------------------------------------------------ claims
\* the license a well-formed key belongs to (0: none), and the most recently
\* created subscription of a user (0: none), stated from the data model
KeyOwner(key) ==
    IF \E i \in LicenseIds : licenses[i].license_key = key
    THEN CHOOSE i \in LicenseIds : licenses[i].license_key = key
    ELSE 0

Newest(u) ==
    IF \E i \in SubIds : subscriptions[i].user_id = u
    THEN CHOOSE i \in SubIds :
            /\ subscriptions[i].user_id = u
            /\ \A j \in SubIds : subscriptions[j].user_id = u => j <= i
    ELSE 0

Granting == {"active", "trialing"}

C2_ValidOnlyIfGranted ==
    (last.op = "validate" /\ last.verdict.valid) =>
        LET lic == KeyOwner(last.arg) IN
        /\ lic # 0
        /\ licenses[lic].is_active
        /\ ~licenses[lic].is_suspended
        /\ Newest(licenses[lic].user_id) # 0
        /\ subscriptions[Newest(licenses[lic].user_id)].status \in Granting

C2_Witness ==
    /\ last.op = "validate"
    /\ last.verdict.valid
    /\ \E i \in SubIds : subscriptions[i].status \notin Granting

\* the reason the fixed order of checks gives for a well-formed key: key not
\* found, license inactive, license suspended, no subscription, subscription
\* inactive, else none
FirstFailing(key) ==
    LET lic == KeyOwner(key)
        sub == Newest(licenses[lic].user_id)
    IN IF lic = 0 THEN "INVALID_KEY"
       ELSE IF ~licenses[lic].is_active THEN "INACTIVE"
       ELSE IF licenses[lic].is_suspended THEN "SUSPENDED"
       ELSE IF sub = 0 THEN "NO_SUBSCRIPTION"
       ELSE IF subscriptions[sub].status \notin Granting THEN "SUBSCRIPTION_INACTIVE"
       ELSE "none"

\* C3: validate reports the reason of the first failing check in the order
\* key not found, inactive, suspended, no subscription, subscription inactive.
C3_OrderOfChecks ==
    (last.op = "validate" /\ last.arg \in Keys) =>
        last.verdict.error_code = FirstFailing(last.arg)

C3_Witness ==
    /\ last.op = "validate"
    /\ last.verdict.error_code = "INACTIVE"
    /\ LET lic == KeyOwner(last.arg) IN
        /\ lic # 0
        /\ licenses[lic].is_suspended
        /\ Newest(licenses[lic].user_id) # 0
        /\ subscriptions[Newest(licenses[lic].user_id)].status = "canceled"

\* the licenses of the user who owns the subscription stored under ref
LicensesOfRef(ref) ==
    {i \in LicenseIds :
        \E j \in SubIds : /\ subscriptions[j].stripe_subscription_id = ref
                          /\ subscriptions[j].user_id = licenses[i].user_id}

\* C4: after an applied subscription_updated event with status canceled or
\* unpaid for a known subscription, every license of its user that was active
\* and not suspended is suspended, and validate on it answers SUSPENDED.
C4_CascadeOnCanceled ==
    [][\A ref \in Refs :
        (/\ last'.op = "customer.subscription.updated"
         /\ last'.arg = ref
         /\ last'.resp = "success"
         /\ \E j \in SubIds :
                /\ subscriptions[j].stripe_subscription_id = ref
                /\ subscriptions'[j].status \in {"canceled", "unpaid"})
        => \A i \in LicensesOfRef(ref) :
              (licenses[i].is_active /\ ~licenses[i].is_suspended)
              => /\ licenses'[i].is_suspended
                 /\ licenses'[i].is_active
                 /\ validate_license(licenses[i].license_key)'.error_code
                        = "SUSPENDED"]_vars

C4_Witness ==
    /\ last.op = "customer.subscription.updated"
    /\ last.resp = "success"
    /\ Cardinality(last.touched) = 2
    /\ \E j \in SubIds : /\ subscriptions[j].stripe_subscription_id = last.arg
                         /\ subscriptions[j].status = "unpaid"
    /\ \A i \in last.touched : licenses[i].is_suspended

\* C5: a subscription_updated event with status past_due and an
\* invoice_payment_failed event leave is_active and is_suspended of every
\* license unchanged.
C5_PastDueNeverSuspends ==
    [][(\/ last'.op = "invoice.payment_failed"
        \/ /\ last'.op = "customer.subscription.updated"
           /\ last'.resp = "success"
           /\ \E j \in SubIds :
                /\ subscriptions[j].stripe_subscription_id = last'.arg
                /\ subscriptions'[j].status = "past_due")
       => /\ Len(licenses') = Len(licenses)
          /\ \A i \in LicenseIds :
                /\ licenses'[i].is_active = licenses[i].is_active
                /\ licenses'[i].is_suspended = licenses[i].is_suspended]_vars

C5_Witness ==
    /\ last.op \in {"customer.subscription.updated", "invoice.payment_failed"}
    /\ last.resp = "success"
    /\ \E j \in SubIds :
        /\ subscriptions[j].stripe_subscription_id = last.arg
        /\ subscriptions[j].status = "past_due"
        /\ \E i \in LicenseIds :
            /\ licenses[i].user_id = subscriptions[j].user_id
            /\ licenses[i].is_active
            /\ ~licenses[i].is_suspended

\* C6: invoice_payment_succeeded for a past_due subscription that the
\* provider confirms active sets the status to active and clears
\* is_suspended of every license of the user that is suspended and active.
C6_PaymentReactivates ==
    [][\A ref \in Refs :
        (/\ \E j \in SubIds :
                /\ subscriptions[j].stripe_subscription_id = ref
                /\ subscriptions[j].status = "past_due"
         /\ handle_invoice_payment_succeeded(ref, {"active"}))
        => /\ \A j \in SubIds :
                subscriptions[j].stripe_subscription_id = ref
                => subscriptions'[j].status = "active"
           /\ \A i \in LicensesOfRef(ref) :
                (licenses[i].is_suspended /\ licenses[i].is_active)
                => ~licenses'[i].is_suspended]_vars

\* the provider's answers that return the subscription
ReturnedAnswers == {a \in CheckoutAnswers : a.status # StripeError}

\* C7: after checkout_completed for a new user who can be resolved and whose
\* subscription the provider returns, the user has exactly one subscription,
\* with status active or trialing, and exactly one license, active and not
\* suspended.
C7_CheckoutGrantsOne ==
    [][\A c \in Emails, ref \in Refs :
        (/\ users[c] = "customer"
         /\ get_licenses_for_user(c) = {}
         /\ get_subscription_for_user(c) = 0
         /\ handle_checkout_completed(c, ref, ReturnedAnswers, GeneratedKey))
        => /\ Cardinality({j \in 1..Len(subscriptions') :
                            subscriptions'[j].user_id = c}) = 1
           /\ Cardinality({i \in 1..Len(licenses') :
                            licenses'[i].user_id = c}) = 1
           /\ \A j \in 1..Len(subscriptions') :
                subscriptions'[j].user_id = c
                => subscriptions'[j].status \in Granting
           /\ \A i \in 1..Len(licenses') :
                licenses'[i].user_id = c
                => licenses'[i].is_active /\ ~licenses'[i].is_suspended]_vars

\* C8: checkout_completed is never partially applied: a delivery creates a
\* Subscription exactly when it creates the License granted for it.
C8_CheckoutAtomic ==
    [][last'.op = "checkout.session.completed"
       => (Len(subscriptions') = Len(subscriptions) + 1
           <=> Len(licenses') = Len(licenses) + 1)]_vars

\* C9: a delivery whose signature is missing or does not verify is answered
\* with an error and changes no user, subscription, license or audit-log
\* record, whatever event it carries.
C9_BadSignatureRejected ==
    [][stripe_signature' \in {"missing", "invalid"}
        => /\ last'.resp \in {"400 Missing stripe signature",
                              "400 Invalid webhook signature"}
           /\ UNCHANGED <<users, licenses, subscriptions, api_logs>>]_vars

C9_Witness ==
    /\ stripe_signature = "invalid"
    /\ last.op = "webhook"
    /\ last.resp = "400 Invalid webhook signature"
    /\ \E j \in SubIds : subscriptions[j].status = "active"
    /\ \E i \in LicenseIds : licenses[i].is_active /\ ~licenses[i].is_suspended

\* C10: after an applied subscription_deleted event for a known subscription
\* its status is canceled, every active license of its user is suspended, and
\* validate on any license of that user is Invalid.
C10_DeletedSuspendsAll ==
    (/\ last.op = "customer.subscription.deleted"
     /\ \E j \in SubIds : subscriptions[j].stripe_subscription_id = last.arg)
    => /\ \A j \in SubIds :
            subscriptions[j].stripe_subscription_id = last.arg
            => subscriptions[j].status = "canceled"
       /\ \A i \in LicensesOfRef(last.arg) :
            /\ licenses[i].is_active => licenses[i].is_suspended
            /\ ~validate_license(licenses[i].license_key).valid

C10_Witness ==
    /\ last.op = "customer.subscription.deleted"
    /\ Cardinality(last.touched) = 2
    /\ \A i \in last.touched : licenses[i].is_active /\ licenses[i].is_suspended
    /\ \E j \in SubIds :
        /\ subscriptions[j].stripe_subscription_id # last.arg
        /\ subscriptions[j].status = "active"

\* C11: in every reachable state no two licenses share a key hash, whatever
\* the interleaving of creations and rotations, two requests that both passed
\* the absence pre-check before either committed included.
C11_UniqueKeyHash ==
    Cardinality({licenses[i].license_key_hash : i \in LicenseIds}) = Len(licenses)

\* two requests left the pre-check with the same key; the second commit was
\* refused
C11_Witness ==
    /\ last.op \in {"create_license", "rotate"}
    /\ last.resp = "500"
    /\ Len(licenses) = MaxLicenses

\* C12: once a rotation has replaced a key, validate on that key is never
\* Valid again, after any later creations and rotations.
C12_OldKeyNeverValid ==
    \A k \in retired : ~validate_license(k).valid

\* C13: suspend is idempotent: for every license of every reachable state,
\* suspending twice leaves the licenses as suspending once does, and every
\* suspend of an existing license reports success and leaves it suspended.
C13_SuspendIdempotent ==
    /\ \A id \in LicenseIds :
            suspend_license(suspend_license(licenses, id), id)
                = suspend_license(licenses, id)
    /\ (last.op = "suspend" /\ last.arg \in LicenseIds)
            => last.resp = "200" /\ licenses[last.arg].is_suspended

C13_Witness ==
    /\ last.op = "suspend"
    /\ last.resp = "200"
    /\ licenses[last.arg].is_suspended
    /\ suspend_license(licenses, last.arg) = licenses

\* C14: activate on an existing license leaves it with is_suspended=false
\* and is_active=true, from each flag combination a reachable license has.
C14_ActivateClearsBoth ==
    /\ \A id \in LicenseIds :
            LET after == activate_license(licenses, id)[id]
            IN after.is_active /\ ~after.is_suspended
    /\ (last.op = "activate" /\ last.resp = "200")
            => licenses[last.arg].is_active /\ ~licenses[last.arg].is_suspended

\* one license was activated while another is both deactivated and suspended
C14_Witness ==
    /\ last.op = "activate"
    /\ last.resp = "200"
    /\ licenses[last.arg].is_active /\ ~licenses[last.arg].is_suspended
    /\ \E i \in LicenseIds : ~licenses[i].is_active /\ licenses[i].is_suspended

\* C15: deactivate sets is_active=false and changes nothing else: not the
\* license's is_suspended flag, key, hash, owner or validation counter, no
\* other license, no subscription.
C15_DeactivateFrame ==
    [][(last'.op = "deactivate" /\ last'.resp = "200")
        => /\ licenses' = [licenses EXCEPT ![last'.arg].is_active = FALSE]
           /\ UNCHANGED <<users, subscriptions, api_logs>>]_vars

C15_Witness ==
    /\ last.op = "deactivate"
    /\ last.resp = "200"
    /\ ~licenses[last.arg].is_active /\ ~licenses[last.arg].is_suspended
    /\ licenses[last.arg].validation_count > 0
    /\ \E i \in LicenseIds : licenses[i].is_active
    /\ subscriptions # <<>>

\* the license a validated key names passes the license checks
PassesLicenseChecks(key) ==
    /\ KeyOwner(key) # 0
    /\ licenses[KeyOwner(key)].is_active
    /\ ~licenses[KeyOwner(key)].is_suspended

\* C16: for a license that passes the license checks, the verdict follows the
\* most recently created subscription of its user alone: Valid exactly when
\* that one is active or trialing, and the reported status is its status,
\* whatever the older subscriptions are.
C16_NewestSubscriptionDecides ==
    (/\ last.op = "validate"
     /\ PassesLicenseChecks(last.arg)
     /\ Newest(licenses[KeyOwner(last.arg)].user_id) # 0)
    => LET newest == subscriptions[Newest(licenses[KeyOwner(last.arg)].user_id)]
       IN /\ last.verdict.valid <=> newest.status \in Granting
          /\ last.verdict.subscription_status = Some(newest.status)

\* an older active subscription, a newest one that is not access-granting,
\* and an Invalid verdict
C16_Witness ==
    /\ last.op = "validate"
    /\ PassesLicenseChecks(last.arg)
    /\ Len(subscriptions) = 2
    /\ subscriptions[1].user_id = subscriptions[2].user_id
    /\ subscriptions[1].status = "active"
    /\ subscriptions[2].status = "canceled"
    /\ ~last.verdict.valid
    /\ last.verdict.error_code = "SUBSCRIPTION_INACTIVE"

\* C17: validate never rejects because the effective expiry is in the past:
\* a license that passes the license checks and whose newest subscription is
\* stored active or trialing is Valid, with days_until_expiry the (negative,
\* when past) distance from now to the effective expiry.
C17_PastExpiryStillValid ==
    (/\ last.op = "validate"
     /\ PassesLicenseChecks(last.arg)
     /\ Newest(licenses[KeyOwner(last.arg)].user_id) # 0
     /\ subscriptions[Newest(licenses[KeyOwner(last.arg)].user_id)].status
            \in Granting)
    => LET sub == subscriptions[Newest(licenses[KeyOwner(last.arg)].user_id)]
           expiry == IF sub.end_time # Nothing THEN The(sub.end_time)
                     ELSE sub.current_period_end
       IN /\ last.verdict.valid
          /\ last.verdict.days_until_expiry = Some(expiry - Now)
          /\ expiry < Now => The(last.verdict.days_until_expiry) < 0

C17_Witness ==
    /\ last.op = "validate"
    /\ last.verdict.valid
    /\ The(last.verdict.expires_at) < Now
    /\ The(last.verdict.days_until_expiry) < 0

\* C18: in a Valid verdict next_renewal is the subscription's
\* current-period-end, not the override end time, when cancel_at_period_end
\* is not set, and absent when it is set.
C18_NextRenewal ==
    (last.op = "validate" /\ last.verdict.valid) =>
        LET sub == subscriptions[Newest(licenses[KeyOwner(last.arg)].user_id)]
        IN /\ ~sub.cancel_at_period_end
                => last.verdict.next_renewal_date = Some(sub.current_period_end)
           /\ sub.cancel_at_period_end
                => last.verdict.next_renewal_date = Nothing

\* an override that differs from the period end, no cancellation
C18_Witness ==
    /\ last.op = "validate"
    /\ last.verdict.valid
    /\ last.verdict.cancel_at_period_end = Some(FALSE)
    /\ last.verdict.end_time # Nothing
    /\ last.verdict.end_time # last.verdict.current_period_end
    /\ last.verdict.next_renewal_date = last.verdict.current_period_end

\* C19: when the metadata update of a validation that passed every check
\* fails, the caller still receives the Valid verdict with the computed
\* fields.
C19_MetadataFailureSwallowed ==
    [][(last'.op = "validate" /\ "metadata" \in last'.faults)
        => last'.verdict = validate_license(last'.arg)]_vars

\* C20: a validation whose audit-log write failed is answered and applied
\* as it would be had the write succeeded: with the verdict of the checks
\* and the metadata update of a Valid verdict when nothing else failed, and
\* changing no license or subscription beyond that update.
C20_LogFailureHarmless ==
    [][(last'.op = "validate" /\ "log" \in last'.faults)
        => /\ api_logs' = api_logs
           /\ last'.faults = {"log"}
                => /\ last'.verdict = validate_license(last'.arg)
                   /\ licenses' =
                        IF validate_license(last'.arg).valid
                        THEN update_license_metadata(
                                LicenseByHash(hash_license_key(last'.arg)))
                        ELSE licenses
           /\ last'.faults # {"log"}
                => last'.verdict = ServiceError /\ licenses' = licenses
           /\ UNCHANGED <<users, subscriptions>>]_vars

\* a Valid verdict was returned and counted although nothing was logged
C20_Witness ==
    /\ last.op = "validate"
    /\ last.faults = {"log"}
    /\ last.verdict.valid
    /\ api_logs = <<>>
    /\ licenses[KeyOwner(last.arg)].validation_count > 0

C22_MalformedDistinctFromNotFound ==
    (last.op = "validate" /\ ~is_license_key_format_valid(KeyText(last.arg)))
    => /\ ~last.verdict.valid
       /\ \A k \in Keys :
            KeyOwner(k) = 0
            => validate_license(k).error_code # last.verdict.error_code

\* the key alphabet: A-Z, a-z, 0-9, '-' and '_'
KeyAlphabet ==
    {"A", "B", "C", "D", "E", "F", "G", "H", "I", "J", "K", "L", "M",
     "N", "O", "P", "Q", "R", "S", "T", "U", "V", "W", "X", "Y", "Z",
     "a", "b", "c", "d", "e", "f", "g", "h", "i", "j", "k", "l", "m",
     "n", "o", "p", "q", "r", "s", "t", "u", "v", "w", "x", "y", "z",
     "0", "1", "2", "3", "4", "5", "6", "7", "8", "9", "-", "_"}

WellFormed(text) ==
    /\ Len(text) = license_key_length
    /\ \A i \in 1..Len(text) : text[i] \in KeyAlphabet

\* C23: every key the generator produces has the configured length, only
\* characters of the alphabet, and passes the format check; the format check
\* accepts a candidate exactly when it has that length and only such
\* characters.
C23_GeneratedKeysWellFormed ==
    /\ last.op = "generate" => WellFormed(last.arg) /\ last.resp = "accepted"
    /\ last.op = "format" => (last.resp = "accepted" <=> WellFormed(last.arg))

\* a generated key that uses both punctuation characters of the alphabet
C23_Witness ==
    /\ last.op = "generate"
    /\ last.resp = "accepted"
    /\ \E i, j \in 1..Len(last.arg) : last.arg[i] = "-" /\ last.arg[j] = "_"

\* C24: suspend, activate, deactivate and rotate called with an id that
\* matches no license answer not-found, not an error, and change no license,
\* subscription, user or audit-log record.
C24_UnknownIdNotFound ==
    [][(/\ last'.op \in {"suspend", "activate", "deactivate", "rotate"}
        /\ last'.arg \notin 1..Len(licenses))
        => /\ last'.resp = "404"
           /\ UNCHANGED <<users, licenses, subscriptions, api_logs>>]_vars

\* a rotation that named no license while licenses exist
C24_Witness ==
    /\ last.op = "rotate"
    /\ last.resp = "404"
    /\ last.arg \notin LicenseIds
    /\ licenses # <<>>
    /\ subscriptions # <<>>

\* C25: a verified subscription-updated event whose reference matches no
\* stored subscription is acknowledged as a success and changes no user,
\* license, subscription or audit-log record, whatever status it carries.
C25_UnknownRefUpdateIsNoOp ==
    [][(/\ stripe_signature' = "valid"
        /\ last'.op = "customer.subscription.updated"
        /\ \A i \in 1..Len(subscriptions) :
               subscriptions[i].stripe_subscription_id # last'.arg)
        => /\ last'.resp = "success"
           /\ UNCHANGED <<users, licenses, subscriptions, api_logs>>]_vars

\* an update for a reference nobody holds, delivered while a subscription in
\* good standing and its license exist
C25_Witness ==
    /\ stripe_signature = "valid"
    /\ last.op = "customer.subscription.updated"
    /\ last.resp = "success"
    /\ \A i \in SubIds : subscriptions[i].stripe_subscription_id # last.arg
    /\ \E i \in SubIds : subscriptions[i].status = "active"
    /\ \E i \in LicenseIds : licenses[i].is_active /\ ~licenses[i].is_suspended

\* C26: a verified invoice-payment-succeeded event changes a subscription or
\* a license only when the stored status of the subscription it names is
\* past_due and the provider confirms active.  In any other stored status,
\* and when the provider reports another status or cannot be reached, every
\* subscription and license record stays as it was.
C26_PaymentActsOnlyOnConfirmedPastDue ==
    [][(stripe_signature' = "valid" /\ last'.op = "invoice.payment_succeeded")
        => /\ <<subscriptions, licenses>>' # <<subscriptions, licenses>>
                => \E i \in 1..Len(subscriptions) :
                      /\ subscriptions[i].stripe_subscription_id = last'.arg
                      /\ subscriptions[i].status = "past_due"
                      /\ subscriptions'[i].status = "active"
           /\ \A answer \in LiveStatuses \ {"active"} :
                WebhookInvoicePaymentSucceeded("valid", last'.arg, {answer})
                    => UNCHANGED <<subscriptions, licenses>>]_vars

\* a paid invoice for a past_due subscription that the provider did not
\* confirm: the subscription is still past_due and its license still suspended
C26_Witness ==
    /\ stripe_signature = "valid"
    /\ last.op = "invoice.payment_succeeded"
    /\ \E i \in SubIds :
          /\ subscriptions[i].stripe_subscription_id = last.arg
          /\ subscriptions[i].status = "past_due"
          /\ \E l \in get_licenses_for_user(subscriptions[i].user_id) :
                licenses[l].is_suspended /\ ~licenses[l].is_active

\* C27: the maintenance sweep decides expiry from the effective expiry.  When
\* every canceled, ended or unpaid subscription of a user carries an override
\* end time that lies in the future, a run of the sweep suspends none of that
\* user's licenses, even though current_period_end is in the past.
C27_SweepHonoursOverride ==
    [][last'.op = "cleanup_expired_subscriptions"
        => \A u \in 1..Len(users) :
              (/\ \E i \in 1..Len(subscriptions) :
                     /\ subscriptions[i].user_id = u
                     /\ subscriptions[i].status \in {"canceled", "ended", "unpaid"}
                     /\ subscriptions[i].current_period_end < Now
               /\ \A i \in 1..Len(subscriptions) :
                     (/\ subscriptions[i].user_id = u
                      /\ subscriptions[i].status \in {"canceled", "ended", "unpaid"})
                     => /\ subscriptions[i].end_time # Nothing
                        /\ The(subscriptions[i].end_time) > Now)
              => \A l \in 1..Len(licenses) :
                    licenses[l].user_id = u
                    => licenses'[l].is_suspended = licenses[l].is_suspended]_vars

\* C28: under any interleaving of concurrent successful validations of one
\* key the validation counter never decreases from one state to the next,
\* and once N validations of the license have completed it lies between its
\* initial value (0 at creation) plus 1 and that value plus N.
C28_CounterNeverCorrupted ==
    [][\A l \in 1..Len(licenses) :
          LET completed == {r \in issuing' : r.op = "validated" /\ r.target = l}
          IN /\ licenses'[l].validation_count >= licenses[l].validation_count
             /\ completed # {}
                  => licenses'[l].validation_count \in 1..Cardinality(completed)]_vars

\* C29: clearing the override end time of a subscription whose override is
\* already clear is a no-op: no column of the subscription record is written,
\* updated_at included, and validate returns the same verdict for every key.
C29_ClearingClearOverrideIsNoOp ==
    [][(/\ last'.op = "set_end_time"
        /\ last'.arg \in 1..Len(subscriptions)
        /\ subscriptions[last'.arg].end_time = Nothing
        /\ subscriptions'[last'.arg].end_time = Nothing)
        => /\ subscriptions' = subscriptions
           /\ last'.updated_at = {}
           /\ \A key \in Keys : validate_license(key)' = validate_license(key)]_vars

\* C30: a listed row takes its days_until_expiry and expiration_status from
\* the override end time when it is set and from current_period_end
\* otherwise.  The day count is the number of whole days from now to that
\* timestamp, rounded down; the status is expired when the count is
\* negative, expires_soon from 0 to 7, active above 7, and unknown (with no
\* day count) when neither timestamp is set.
C30_ListingUsesEffectiveExpiry ==
    last.op = "get_subscriptions"
    => LET end_time == last.arg[1]
           current_period_end == last.arg[2]
           effective == IF end_time # {} THEN end_time ELSE current_period_end
           row == last.resp
       IN IF effective = {}
          THEN row.days_until_expiry = {} /\ row.expiration_status = "unknown"
          ELSE \E days \in -(TicksPerDay + 1)..9 :
                  /\ row.days_until_expiry = {days}
                  /\ days * TicksPerDay <= The(effective) - ListingNow
                  /\ The(effective) - ListingNow < (days + 1) * TicksPerDay
                  /\ days < 0 => row.expiration_status = "expired"
                  /\ days \in 0..7 => row.expiration_status = "expires_soon"
                  /\ days > 7 => row.expiration_status = "active"

\* a row whose override ends within the eighth day while the billing period
\* runs longer: listed with 7 days left and as expiring soon
C30_Witness ==
    /\ last.op = "get_subscriptions"
    /\ last.arg[1] # {}
    /\ last.arg[2] # {}
    /\ The(last.arg[1]) - ListingNow > 7 * TicksPerDay
    /\ The(last.arg[2]) - ListingNow >= 8 * TicksPerDay
    /\ last.resp.days_until_expiry = {7}
    /\ last.resp.expiration_status = "expires_soon"

\* C31: the status overwrite and the suspensions of one subscription-updated
\* (canceled or unpaid) or subscription-deleted event are one transaction.  A
\* delivery that is answered with an error leaves subscriptions and licenses
\* as they were, and a delivery that leaves the status overwritten leaves
\* every license it had to suspend suspended.
C31_CascadeAtomic ==
    [][(/\ stripe_signature' = "valid"
        /\ last'.op \in {"customer.subscription.updated",
                          "customer.subscription.deleted"})
        => /\ last'.resp = "500" => UNCHANGED <<subscriptions, licenses>>
           /\ \A i \in 1..Len(subscriptions) :
                 (/\ subscriptions[i].stripe_subscription_id = last'.arg
                  /\ subscriptions'[i].status \in {"canceled", "unpaid"}
                  /\ subscriptions'[i] # subscriptions[i])
                 => \A l \in 1..Len(licenses) :
                       (/\ licenses[l].user_id = subscriptions[i].user_id
                        /\ licenses[l].is_active
                        /\ ~licenses[l].is_suspended)
                       => licenses'[l].is_suspended]_vars

\* C32: no billing event changes a license's is_active from false to true: a
\* deactivated license stays deactivated through every verified
\* checkout_completed, subscription_updated, subscription_deleted,
\* invoice_payment_failed and invoice_payment_succeeded delivery.
C32_EventsNeverReactivate ==
    [][stripe_signature' = "valid"
        => \A l \in 1..Len(licenses) :
              ~licenses[l].is_active => ~licenses'[l].is_active]_vars

\* C33: the grace-period round trip of a user whose only subscription is
\* active and who holds an active, un-suspended license.  A verified
\* invoice_payment_failed changes no license and makes validate of the
\* license's key answer subscription_inactive, naming past_due; a following
\* invoice_payment_succeeded that the provider confirms as active makes
\* validate answer Valid again.
C33_GraceRoundTrip ==
    [][\A i \in 1..Len(subscriptions), l \in 1..Len(licenses) :
          (/\ stripe_signature' = "valid"
           /\ subscriptions[i].stripe_subscription_id = last'.arg
           /\ \A j \in 1..Len(subscriptions) :
                 subscriptions[j].user_id = subscriptions[i].user_id => j = i
           /\ licenses[l].user_id = subscriptions[i].user_id
           /\ licenses[l].is_active
           /\ ~licenses[l].is_suspended)
          => /\ (last'.op = "invoice.payment_failed" /\ subscriptions[i].status = "active")
                  => /\ licenses' = licenses
                     /\ validate_license(licenses[l].license_key)'.error_code
                            = "SUBSCRIPTION_INACTIVE"
                     /\ validate_license(licenses[l].license_key)'.subscription_status
                            = {"past_due"}
             /\ (/\ last'.op = "invoice.payment_succeeded"
                 /\ subscriptions[i].status = "past_due"
                 /\ subscriptions'[i].status = "active")
                  => /\ licenses'[l] = licenses[l]
                     /\ validate_license(licenses[l].license_key)'.valid]_vars

\* the middle of the round trip: the payment failed, the license keeps its
\* flags and the subscription is past_due
C33_Witness ==
    /\ stripe_signature = "valid"
    /\ last.op = "invoice.payment_failed"
    /\ \E i \in SubIds, l \in LicenseIds :
          /\ subscriptions[i].stripe_subscription_id = last.arg
          /\ subscriptions[i].status = "past_due"
          /\ \A j \in SubIds : subscriptions[j].user_id = subscriptions[i].user_id => j = i
          /\ licenses[l].user_id = subscriptions[i].user_id
          /\ licenses[l].is_active
          /\ ~licenses[l].is_suspended
          /\ validate_license(licenses[l].license_key).error_code = "SUBSCRIPTION_INACTIVE"

\* C34: a license is granted once per checkout, however often and however
\* concurrently the checkout_completed event is delivered: for every billing
\* reference there is at most one subscription and at most one delivery that
\* created a license, and no more licenses exist than subscriptions.
C34_OneGrantPerCheckout ==
    /\ \A ref \in Refs :
          /\ Cardinality({i \in 1..Len(subscriptions) :
                            subscriptions[i].stripe_subscription_id = ref}) <= 1
          /\ Cardinality({r \in issuing : r.op = "granted" /\ r.target = ref}) <= 1
    /\ Len(licenses) <= Len(subscriptions)

\* one reference delivered three times: one delivery granted the license,
\* the other two were rejected
C34_Witness ==
    \E ref \in Refs :
        /\ Cardinality({r \in issuing : r.op = "granted" /\ r.target = ref}) = 1
        /\ Cardinality({r \in issuing : r.op = "rejected" /\ r.target = ref}) = 2
        /\ Len(licenses) = 1

\* C35: validate changes no subscription and no user, and no license other
\* than the one the key matches; a call that returns an Invalid verdict
\* changes no license at all.
C35_ValidateFrame ==
    [][last'.op = "validate"
        => /\ UNCHANGED <<users, subscriptions>>
           /\ Len(licenses') = Len(licenses)
           /\ \A l \in 1..Len(licenses) :
                 licenses'[l] # licenses[l]
                 => /\ last'.verdict.valid
                    /\ licenses[l].license_key = last'.arg
                    /\ licenses'[l] = [licenses[l] EXCEPT
                                          !.validation_count = @ + 1]]_vars

\* a Valid verdict for one of two licenses: its counter moved, the other
\* license's did not
C35_Witness ==
    /\ last.op = "validate"
    /\ last.verdict.valid
    /\ \E l, m \in LicenseIds :
          /\ l # m
          /\ licenses[l].license_key = last.arg
          /\ licenses[l].validation_count = 1
          /\ licenses[m].validation_count = 0
          /\ licenses[m].user_id = licenses[l].user_id

\* C36: an Invalid verdict reveals nothing beyond its error code.  In every
\* verdict with valid = false, returned or obtainable for any key, the
\* expiry, billing-period, override end time, next-renewal, plan and
\* days-until-expiry fields are absent, and the subscription status is
\* present only under the code SUBSCRIPTION_INACTIVE.
C36_InvalidRevealsNothing ==
    \A verdict \in {validate_license(key) : key \in Keys}
                    \cup {v \in {last.verdict} : last.op = "validate"} :
        ~verdict.valid
        => /\ verdict.expires_at = {}
           /\ verdict.current_period_end = {}
           /\ verdict.end_time = {}
           /\ verdict.next_renewal_date = {}
           /\ verdict.cancel_at_period_end = {}
           /\ verdict.subscription_plan = {}
           /\ verdict.days_until_expiry = {}
           /\ verdict.subscription_status # {}
                => verdict.error_code = "SUBSCRIPTION_INACTIVE"

\* a returned Invalid verdict that carries the status of the subscription
C36_Witness ==
    /\ last.op = "validate"
    /\ ~last.verdict.valid
    /\ last.verdict.error_code = "SUBSCRIPTION_INACTIVE"
    /\ last.verdict.subscription_status = {"canceled"}
    /\ \E i \in SubIds : subscriptions[i].end_time = {} /\ subscriptions[i].status = "canceled"

\* C37: while the most recently created subscription of a user is active or
\* trialing, a verified billing event that names an older subscription of
\* that user suspends none of the user's licenses: validate of an active,
\* un-suspended license of the user is Valid after the event as before.
C37_OlderSubscriptionEventsHarmless ==
    [][\A old, new \in 1..Len(subscriptions), l \in 1..Len(licenses) :
          (/\ stripe_signature' = "valid"
           /\ last'.op \in {"customer.subscription.updated",
                             "customer.subscription.deleted",
                             "invoice.payment_failed",
                             "invoice.payment_succeeded"}
           /\ subscriptions[old].stripe_subscription_id = last'.arg
           /\ old < new
           /\ subscriptions[new].user_id = subscriptions[old].user_id
           /\ \A j \in 1..Len(subscriptions) :
                 subscriptions[j].user_id = subscriptions[old].user_id => j <= new
           /\ subscriptions[new].status \in {"active", "trialing"}
           /\ licenses[l].user_id = subscriptions[old].user_id
           /\ licenses[l].is_active
           /\ ~licenses[l].is_suspended)
          => /\ ~licenses'[l].is_suspended
             /\ validate_license(licenses[l].license_key)'.valid]_vars

\* C38: subscription_updated, subscription_deleted and invoice_payment_failed
\* never clear is_suspended.  A suspended license is still suspended after
\* any such verified event, and validate of a suspended, active license
\* keeps answering SUSPENDED, also when the event returns the subscription
\* to active.
C38_EventsNeverUnsuspend ==
    [][(/\ stripe_signature' = "valid"
        /\ last'.op \in {"customer.subscription.updated",
                          "customer.subscription.deleted",
                          "invoice.payment_failed"})
        => \A l \in 1..Len(licenses) :
              licenses[l].is_suspended
              => /\ licenses'[l].is_suspended
                 /\ licenses[l].is_active
                      => validate_license(licenses[l].license_key)'.error_code
                            = "SUSPENDED"]_vars

\* a subscription returned to active by an update while the license its
\* cancellation suspended is still suspended
C38_Witness ==
    /\ stripe_signature = "valid"
    /\ last.op = "customer.subscription.updated"
    /\ \E i \in SubIds, l \in LicenseIds :
          /\ subscriptions[i].stripe_subscription_id = last.arg
          /\ subscriptions[i].status = "active"
          /\ get_subscription_for_user(subscriptions[i].user_id) = i
          /\ licenses[l].user_id = subscriptions[i].user_id
          /\ licenses[l].is_active
          /\ licenses[l].is_suspended
          /\ validate_license(licenses[l].license_key).error_code = "SUSPENDED"

\* C39: in every reachable state the stored hash of each license is the hash
\* of its stored key, so validate of the key a license holds, as issued by
\* the latest create or rotate, finds the license and never answers with the
\* key-not-found verdict.
C39_StoredHashMatchesKey ==
    \A l \in 1..Len(licenses) :
        /\ licenses[l].license_key_hash = hash_license_key(licenses[l].license_key)
        /\ \E m \in 1..Len(licenses) :
              licenses[m].license_key_hash = hash_license_key(licenses[l].license_key)
        /\ validate_license(licenses[l].license_key).message # "Invalid license key"

\* a committed rotation: the license holds a new key, the old one is retired
C39_Witness ==
    /\ last.op = "rotate"
    /\ last.resp = "200"
    /\ last.arg \in LicenseIds
    /\ licenses[last.arg].license_key \notin retired
    /\ retired # {}
    /\ Len(licenses) = MaxLicenses

\* the upper-case spelling of each status name of the enum
UpperCase ==
    [active |-> "ACTIVE", past_due |-> "PAST_DUE", canceled |-> "CANCELED",
     unpaid |-> "UNPAID", incomplete |-> "INCOMPLETE",
     incomplete_expired |-> "INCOMPLETE_EXPIRED", trialing |-> "TRIALING",
     ended |-> "ENDED"]

\* the status a string names: one of the eight names in lower or upper case,
\* or the spelling cancelled
NamedStatus(status_str) ==
    {st \in SubscriptionStatus : status_str \in {st, UpperCase[st]}}
        \cup {st \in {"canceled"} : status_str \in {"cancelled", "CANCELLED"}}

\* C40: the subscription an operator creates or updates is stored with the
\* status its status string names (lower or upper case, or cancelled), and
\* with active when the string names none.  In that case a user whose newest
\* subscription it is validates as Valid on an active, un-suspended license.
C40_StatusMapping ==
    [][\A row \in 1..Len(subscriptions') :
          (\/ /\ last'.op = "create_subscription"
              /\ row = Len(subscriptions) + 1
           \/ /\ last'.op = "update_subscription"
              /\ last'.resp = "200"
              /\ row = last'.arg[1])
          => LET status_str == last'.arg[2]
                 stored == subscriptions'[row]
             IN /\ NamedStatus(status_str) # {}
                     => stored.status \in NamedStatus(status_str)
                /\ NamedStatus(status_str) = {}
                     => /\ stored.status = "active"
                        /\ \A l \in 1..Len(licenses) :
                              (/\ licenses[l].user_id = stored.user_id
                               /\ licenses[l].is_active
                               /\ ~licenses[l].is_suspended
                               /\ \A j \in 1..Len(subscriptions') :
                                     subscriptions'[j].user_id = stored.user_id
                                     => j <= row)
                              => validate_license(licenses[l].license_key)'.valid]_vars

\* a subscription created with the status string "Canceled": stored as
\* active, and the user's license validates
C40_Witness ==
    /\ last.op = "create_subscription"
    /\ last.arg[2] = "Canceled"
    /\ subscriptions[Len(subscriptions)].status = "active"
    /\ \E l \in LicenseIds :
          /\ licenses[l].user_id = subscriptions[Len(subscriptions)].user_id
          /\ validate_license(licenses[l].license_key).valid

====
